---------------------------- MODULE Spec2Model ----------------------------
(***************************************************************************)
(* Model of sol-wallet-monitor (src/src/main.rs): the in-memory wallet     *)
(* store (WalletBalance and the shared HashMap), the redb history table,   *)
(* start-up from config.toml, the add/delete HTTP handlers, the gRPC       *)
(* ingestion loop and the per-client WebSocket broadcaster.                *)
(*                                                                         *)
(* Amounts.  An f64 SOL amount that the program computes as                *)
(* `n as f64 / 1_000_000_000.0` is represented by the integer n (lamports, *)
(* or WSOL base units: WSOL has 9 decimals as well).  The sum of two       *)
(* amounts is the integer sum.  Time is a millisecond counter `now`.       *)
(***************************************************************************)
EXTENDS Integers, Sequences, FiniteSets, TLC

(***************************************************************************)
(* Bounds of the model.                                                    *)
(***************************************************************************)
\* History cap.  The program's value is 10000000 (main.rs:43); the model
\* uses a small cap so that eviction is reachable.
MAX_HISTORY_SIZE == 2
\* Last value of the millisecond clock.
MaxClock == 1
\* Number of stream messages the ingestion loop consumes in a run.
MaxMessages == 2
\* Number of HTTP add/delete requests in a run.
MaxRequests == 3

(***************************************************************************)
(* Inputs.                                                                 *)
(***************************************************************************)
WalletA == "A1111111111111111111111111111111"
WalletB == "B1111111111111111111111111111111"
Addresses == {WalletA, WalletB}
\* An address that is no base58 encoding of a public key ('0', 'O', 'I' and
\* 'l' are not base58 digits).  config.toml is loaded without validation
\* (main.rs:1268-1274), so such an address can only be a configured one.
WalletInvalid == "0OIl0OIl0OIl0OIl0OIl0OIl0OIl0OIl"
Names == {"alice", "bob"}

\* Lamport balances the RPC node reports (client.get_balance).
RpcLamports == {15, 1200}
\* WSOL base units the RPC node reports (get_token_account_balance).
RpcWsol == {0, 2500}
\* account.lamports of a streamed account update.
EventLamports == {0, 1200}
\* token_account.amount of a streamed token-account update.
EventWsol == {0, 500, 2500}

\* 0.000001 SOL, the persistence threshold of the update handlers, in
\* lamports / base units (0.000001 * 1e9).
EPSILON_UNITS == 1000

\* config.toml: the [[wallets]] list the process is started with.
ConfigChoices ==
    { <<>>,
      << [address |-> WalletA, name |-> "alice"] >> }

VARIABLES
    config,               \* Config.wallets
    startup,              \* position of main() before the server starts
    wallets,              \* the HashMap<String, WalletBalance> (SharedWallets)
    db,                   \* WALLET_HISTORY_TABLE of wallet_history.redb
    now,                  \* Utc::now(), milliseconds
    grpc_restart_signal,  \* GrpcRestartSignal
    grpc,                 \* create_grpc_stream: position and locals
    req,                  \* in-flight add_wallet / delete_wallet handlers
    started,              \* number of add/delete requests received so far
    ws,                   \* websocket_connection: position and locals
    removed,              \* wallets whose removal is complete and that no add
                          \* has begun to bring back since (history variable)
    last                  \* the step taken last: operation, wallet, wallet before

vars == << config, startup, wallets, db, now, grpc_restart_signal, grpc, req,
          started, ws, removed, last >>

(***************************************************************************)
(* Helpers on sequences and sets.                                          *)
(***************************************************************************)
Abs(x) == IF x < 0 THEN -x ELSE x

Min(a, b) == IF a < b THEN a ELSE b

\* The last n elements of s, in order (all of s when it is shorter).
LastN(s, n) == IF Len(s) <= n THEN s ELSE SubSeq(s, Len(s) - n + 1, Len(s))

\* Option<T> as a sequence of length 0 or 1.
None == <<>>
Some(x) == <<x>>

(***************************************************************************)
(* f64 conversions.                                                        *)
(***************************************************************************)
\* Lamport counts n of the model's inputs for which the IEEE-754 double
\* (n as f64 / 1e9) * 1e9 is below n: 15 / 1e9 * 1e9 = 14.999999999999998.
\* (0, 14, 500, 1200 and 2500 survive the round trip exactly.)
F64Truncated == {15}

\* `(sol_balance * 1_000_000_000.0) as u64` (main.rs:588, 930) applied to
\* the f64 that query_wallet_balance computed from n lamports
\* (main.rs:902): `as u64` truncates toward zero.
sol_to_lamports(n) == IF n \in F64Truncated THEN n - 1 ELSE n

\* The test without the threshold: any change counts.
exceeds_zero(new, old) == Abs(new - old) > 0

\* `(new - old).abs() > 0.000001` on the f64 amounts of new and old units.
\* The inputs keep away from a difference of exactly EPSILON_UNITS, where the
\* rounding of the f64 subtraction decides the test.
exceeds_epsilon(new, old) == Abs(new - old) > EPSILON_UNITS

(***************************************************************************)
(* WalletBalance (main.rs:167-312).                                        *)
(***************************************************************************)
WalletBalance_new(address, name, t) ==
    [ address          |-> address,
      name             |-> name,
      sol_balance      |-> 0,
      wsol_balance     |-> 0,
      wsol_initialized |-> FALSE,
      last_update      |-> t,
      history          |-> <<>> ]

\* total_balance with its test inverted.
total_balance_inverted(w) ==
    IF w.wsol_initialized THEN w.sol_balance
    ELSE w.sol_balance + w.wsol_balance

total_balance(w) ==
    IF ~w.wsol_initialized THEN w.sol_balance
    ELSE w.sol_balance + w.wsol_balance

\* The BalanceHistory value add_to_history builds from the wallet.
history_point(w) ==
    [ timestamp     |-> w.last_update,
      sol_balance   |-> w.sol_balance,
      wsol_balance  |-> IF w.wsol_initialized THEN w.wsol_balance ELSE 0,
      total_balance |-> total_balance(w) ]

\* The eviction loop taking from the back: `self.history.pop_back()`.
RECURSIVE pop_back_while_over(_)
pop_back_while_over(h) ==
    IF Len(h) > MAX_HISTORY_SIZE
    THEN pop_back_while_over(SubSeq(h, 1, Len(h) - 1))
    ELSE h

\* `while self.history.len() > MAX_HISTORY_SIZE { self.history.pop_front(); }`
RECURSIVE pop_front_while_over(_)
pop_front_while_over(h) ==
    IF Len(h) > MAX_HISTORY_SIZE THEN pop_front_while_over(Tail(h)) ELSE h

add_to_history(w) ==
    [w EXCEPT !.history = pop_front_while_over(Append(w.history, history_point(w)))]

\* update_sol without the test of wsol_initialized.
update_sol_unguarded(w, lamports, t) ==
    add_to_history([w EXCEPT !.sol_balance = lamports, !.last_update = t])

update_sol(w, lamports, t) ==
    LET u == [w EXCEPT !.sol_balance = lamports, !.last_update = t]
    IN  IF u.wsol_initialized THEN add_to_history(u) ELSE u

\* update_wsol appending the point before the new amount is stored.
update_wsol_stale_point(w, amount, t) ==
    LET u == add_to_history([w EXCEPT !.wsol_initialized = TRUE, !.last_update = t])
    IN  [u EXCEPT !.wsol_balance = amount]

update_wsol(w, amount, t) ==
    LET u == [w EXCEPT !.wsol_balance = amount,
                       !.wsol_initialized = TRUE,
                       !.last_update = t]
    IN  IF u.wsol_initialized THEN add_to_history(u) ELSE u

\* initialize_wsol appending whatever the history holds.
initialize_wsol_always(w, amount, t) ==
    add_to_history([w EXCEPT !.wsol_balance = amount,
                             !.wsol_initialized = TRUE,
                             !.last_update = t])

initialize_wsol(w, amount, t) ==
    LET u == [w EXCEPT !.wsol_balance = amount,
                       !.wsol_initialized = TRUE,
                       !.last_update = t]
    IN  IF u.history = <<>> THEN add_to_history(u) ELSE u

\* A seeding that also takes the balances of the newest record.
load_history_from_db_restores_balances(w, records) ==
    LET pts == [i \in 1..Len(records) |->
                  [ timestamp     |-> records[i].timestamp,
                    sol_balance   |-> records[i].sol_balance,
                    wsol_balance  |-> records[i].wsol_balance,
                    total_balance |-> records[i].total_balance ]]
    IN  IF records = <<>> THEN w
        ELSE [w EXCEPT !.history      = pop_front_while_over(pts),
                       !.sol_balance  = records[Len(records)].sol_balance,
                       !.wsol_balance = records[Len(records)].wsol_balance]

\* records: a sequence of WalletHistoryRecord.
load_history_from_db(w, records) ==
    LET pts == [i \in 1..Len(records) |->
                  [ timestamp     |-> records[i].timestamp,
                    sol_balance   |-> records[i].sol_balance,
                    wsol_balance  |-> records[i].wsol_balance,
                    total_balance |-> records[i].total_balance ]]
    IN  [w EXCEPT !.history = pop_front_while_over(pts)]


\* Sample size of to_summary.  The program's value is 100 (main.rs:267);
\* the model uses a small one so that sampling is reachable.
SUMMARY_SAMPLE_SIZE == 1

\* WalletSummary; indices of the VecDeque are 0-based in the program.
to_summary(w) ==
    LET n       == Len(w.history)
        step    == n \div SUMMARY_SAMPLE_SIZE
        kept    == SelectSeq([i \in 1..n |-> i], LAMBDA i : (i - 1) % step = 0)
        sampled == IF n > SUMMARY_SAMPLE_SIZE
                   THEN [k \in 1..Min(Len(kept), SUMMARY_SAMPLE_SIZE) |-> w.history[kept[k]]]
                   ELSE w.history
    IN  [ address         |-> w.address,
          name            |-> w.name,
          sol_balance     |-> w.sol_balance,
          wsol_balance    |-> IF w.wsol_initialized THEN w.wsol_balance ELSE 0,
          total_balance   |-> total_balance(w),
          last_update     |-> w.last_update,
          sampled_history |-> sampled ]

(***************************************************************************)
(* The history table (main.rs:76-94, 336-415).  The table maps the key     *)
(* "{address}_{timestamp_millis}" to the JSON of a WalletHistoryRecord: a  *)
(* table is a set of records with at most one record per (address,         *)
(* timestamp).                                                             *)
(***************************************************************************)
WalletHistoryRecord_new(address, sol_balance, wsol_balance, t) ==
    [ timestamp     |-> t,
      address       |-> address,
      sol_balance   |-> sol_balance,
      wsol_balance  |-> wsol_balance,
      total_balance |-> sol_balance + wsol_balance ]

\* table.insert(key, value): a record with the same key is replaced.
save_wallet_history(table, record) ==
    { r \in table : ~(r.address = record.address /\ r.timestamp = record.timestamp) }
        \cup {record}

\* records.sort_by_key(|r| r.timestamp) on the records of a set.
RECURSIVE sort_by_timestamp(_)
sort_by_timestamp(S) ==
    IF S = {} THEN <<>>
    ELSE LET first == CHOOSE r \in S : \A q \in S : r.timestamp <= q.timestamp
         IN  <<first>> \o sort_by_timestamp(S \ {first})

load_wallet_history(table, address) ==
    sort_by_timestamp({ r \in table : r.address = address })

\* delete_wallet_history that returns before write_txn.commit().
delete_wallet_history_uncommitted(table, address) == table

\* The keys removed are those that start with "{address}_"; for base58
\* addresses (no '_') these are the keys of the records of that address.
delete_wallet_history(table, address) ==
    { r \in table : r.address # address }

\* HashMap<String, Vec<WalletHistoryRecord>>: only addresses with a record
\* have an entry.
load_all_wallet_history(table) ==
    [ a \in { r.address : r \in table } |->
        sort_by_timestamp({ r \in table : r.address = a }) ]

\* The table a previous run left behind for WalletA: k records, one per
\* millisecond before the start of this run.
prior_log(k) ==
    { WalletHistoryRecord_new(WalletA, 1200, 500 * (i % 2), i - k - 1) : i \in 1..k }

(***************************************************************************)
(* The shared map.                                                         *)
(***************************************************************************)
\* HashMap::insert
map_insert(m, k, v) == [x \in DOMAIN m \cup {k} |-> IF x = k THEN v ELSE m[x]]

\* HashMap::remove
map_remove(m, k) == [x \in DOMAIN m \ {k} |-> m[x]]

\* Option<WalletBalance> of HashMap::get
map_get(m, k) == IF k \in DOMAIN m THEN Some(m[k]) ELSE None

\* A value of `last`: the operation, the wallet it is about ("" when none) and
\* that wallet as it was before the step (None when it did not exist).
\* and the step's input (None when it has none).
taken_with(op, address, pre, arg) ==
    [op |-> op, address |-> address, pre |-> pre, arg |-> arg]

taken(op, address, pre) == taken_with(op, address, pre, None)

(***************************************************************************)
(* Initial state: main() is entered, the history table is what a previous  *)
(* run left, nothing is tracked yet.                                       *)
(***************************************************************************)
Init ==
    /\ config \in ConfigChoices
    /\ db \in { prior_log(k) : k \in {0, 1, MAX_HISTORY_SIZE + 1} }
    /\ startup = [pc |-> "construct", i |-> 1, pending |-> {}, address |-> "", wsol |-> 0]
    /\ wallets = << >>
    /\ now = 0
    /\ grpc_restart_signal = FALSE
    /\ grpc = [pc |-> "idle", wallet_addresses |-> {}, ata_to_wallet_map |-> << >>,
               messages |-> 0]
    /\ req = << >>
    /\ started = 0
    /\ removed = {}
    /\ ws = [c \in {"c1", "c2"} |-> [ pc |-> "closed", last_sent_data |-> None,
                                       current_data |-> << >>, todo |-> {}, updates |-> {} ]]
    /\ last = taken("init", "", None)

(***************************************************************************)
(* The clock.                                                              *)
(***************************************************************************)
Tick ==
    /\ now < MaxClock
    /\ now' = now + 1
    /\ last' = taken("tick", "", None)
    /\ UNCHANGED << config, startup, wallets, db, grpc_restart_signal, grpc, req, ws,
                    started, removed >>

(***************************************************************************)
(* main() before the server starts (main.rs:1256-1287).                    *)
(***************************************************************************)
\* One iteration of `for wallet_config in &config.wallets`.
StartupConstruct ==
    /\ startup.pc = "construct"
    /\ startup.i <= Len(config)
    /\ LET cfg          == config[startup.i]
           history_data == load_all_wallet_history(db)
           fresh        == WalletBalance_new(cfg.address, cfg.name, now)
           wallet       == IF cfg.address \in DOMAIN history_data
                           THEN load_history_from_db(fresh, history_data[cfg.address])
                           ELSE fresh
       IN  /\ wallets' = map_insert(wallets, cfg.address, wallet)
           /\ last' = taken("construct", cfg.address, Some(fresh))
    /\ startup' = [startup EXCEPT !.i = @ + 1]
    /\ UNCHANGED << config, db, now, grpc_restart_signal, grpc, req, ws,
                    started, removed >>

\* The loop is over: initialize_wallets_from_rpc is entered.
StartupBeginRpc ==
    /\ startup.pc = "construct"
    /\ startup.i > Len(config)
    /\ startup' = [startup EXCEPT !.pc = "rpc", !.pending = DOMAIN wallets]
    /\ last' = taken("begin_rpc", "", None)
    /\ UNCHANGED << config, wallets, db, now, grpc_restart_signal, grpc, req, ws,
                    started, removed >>

\* One iteration of `for (address, wallet) in wallets.iter_mut()` begins and
\* query_wallet_balance returns Ok((sol_balance, wsol_balance)):
\* wallet.update_sol((sol_balance * 1e9) as u64).
StartupRpcUpdateSol(a, lamports, wsol) ==
    /\ startup.pc = "rpc"
    /\ a \in startup.pending
    /\ wallets' = [wallets EXCEPT ![a] = update_sol(@, sol_to_lamports(lamports), now)]
    /\ startup' = [startup EXCEPT !.pc = "rpc_init", !.address = a, !.wsol = wsol]
    /\ last' = taken_with("update_sol", a, Some(wallets[a]), lamports)
    /\ UNCHANGED << config, db, now, grpc_restart_signal, grpc, req, ws,
                    started, removed >>

\* The rest of the Ok branch and of the iteration:
\* wallet.initialize_wsol(wsol_balance), then the record of the fresh
\* balances is saved.
StartupRpcInitializeWsol ==
    /\ startup.pc = "rpc_init"
    /\ LET a      == startup.address
           wallet == initialize_wsol(wallets[a], startup.wsol, now)
       IN  /\ wallets' = [wallets EXCEPT ![a] = wallet]
           /\ db' = IF wallet.wsol_initialized
                    THEN save_wallet_history(db,
                            WalletHistoryRecord_new(wallet.address, wallet.sol_balance,
                                                    wallet.wsol_balance, now))
                    ELSE db
           /\ last' = taken("initialize_wsol", a, Some(wallets[a]))
    /\ startup' = [startup EXCEPT !.pc = "rpc", !.pending = @ \ {startup.address},
                                  !.address = "", !.wsol = 0]
    /\ UNCHANGED << config, now, grpc_restart_signal, grpc, req, ws,
                    started, removed >>

\* An Err iteration that only logs the error.
StartupRpcFailedLogsOnly(a) ==
    /\ startup.pc = "rpc"
    /\ a \in startup.pending
    /\ last' = taken("initialize_wsol", a, Some(wallets[a]))
    /\ startup' = [startup EXCEPT !.pending = @ \ {a}]
    /\ UNCHANGED << config, wallets, db, now, grpc_restart_signal, grpc, req, ws,
                    started, removed >>

\* One iteration in which query_wallet_balance returns Err:
\* wallet.initialize_wsol(0.0), then the record is saved.
StartupRpcFailed(a) ==
    /\ startup.pc = "rpc"
    /\ a \in startup.pending
    /\ LET wallet == initialize_wsol(wallets[a], 0, now)
       IN  /\ wallets' = [wallets EXCEPT ![a] = wallet]
           /\ db' = IF wallet.wsol_initialized
                    THEN save_wallet_history(db,
                            WalletHistoryRecord_new(wallet.address, wallet.sol_balance,
                                                    wallet.wsol_balance, now))
                    ELSE db
           /\ last' = taken("initialize_wsol", a, Some(wallets[a]))
    /\ startup' = [startup EXCEPT !.pending = @ \ {a}]
    /\ UNCHANGED << config, now, grpc_restart_signal, grpc, req, ws,
                    started, removed >>

\* A start-up that shares the map and starts the server while wallets are
\* still waiting for their balances.
StartupServeEarly ==
    /\ startup.pc = "rpc"
    /\ startup' = [startup EXCEPT !.pc = "running"]
    /\ grpc' = [grpc EXCEPT !.pc = "connect"]
    /\ last' = taken("serve", "", None)
    /\ UNCHANGED << config, wallets, db, now, grpc_restart_signal, req, ws,
                    started, removed >>

\* initialize_wallets_from_rpc returns: the map becomes the shared map, the
\* ingestion task is spawned and the server starts.
StartupServe ==
    /\ startup.pc = "rpc"
    /\ startup.pending = {}
    /\ startup' = [startup EXCEPT !.pc = "running"]
    /\ grpc' = [grpc EXCEPT !.pc = "connect"]
    /\ last' = taken("serve", "", None)
    /\ UNCHANGED << config, wallets, db, now, grpc_restart_signal, req, ws,
                    started, removed >>

Startup ==
    \/ StartupConstruct
    \/ StartupBeginRpc
    \/ \E a \in Addresses, lamports \in RpcLamports, wsol \in RpcWsol :
          StartupRpcUpdateSol(a, lamports, wsol)
    \/ StartupRpcInitializeWsol
    \/ \E a \in Addresses : StartupRpcFailed(a)
    \/ StartupServe

(***************************************************************************)
(* The ingestion loop, create_grpc_stream (main.rs:805-890, 961-1002,      *)
(* 1089-1236).                                                             *)
(***************************************************************************)
\* ProgramPubkey::from_str(wallet_address) is Ok: the string is the base58
\* encoding of a public key.
is_pubkey(wallet_address) == wallet_address \in Addresses

\* calculate_wsol_ata, the Ok value: the associated token address of a
\* wallet for the WSOL mint, a program-derived address distinct for distinct
\* wallets.  The result is Err exactly when is_pubkey is false.
calculate_wsol_ata(wallet_address) == "ATA" \o wallet_address

\* A derivation loop that pushes only the addresses after the first.
calculate_all_wsol_atas_skips_first(wallet_addresses) ==
    LET derivable == SelectSeq(wallet_addresses, is_pubkey)
    IN  [ i \in 1..(Len(derivable) - 1) |-> calculate_wsol_ata(derivable[i + 1]) ]

\* calculate_all_wsol_atas: the derived addresses in the order of the
\* wallets; a wallet whose derivation fails is logged and pushes nothing.
calculate_all_wsol_atas(wallet_addresses) ==
    LET derivable == SelectSeq(wallet_addresses, is_pubkey)
    IN  [ i \in 1..Len(derivable) |-> calculate_wsol_ata(derivable[i]) ]

\* wallets_guard.keys().cloned().collect(): the keys in the iteration order
\* of the HashMap, which can be any order.
keys_collect(map) ==
    { order \in [1..Cardinality(DOMAIN map) -> DOMAIN map] :
        \A i, j \in DOMAIN order : i # j => order[i] # order[j] }

\* The HashMap filled by
\* `for (wallet_addr, ata_addr) in wallet_addresses.iter().zip(ata_addresses.iter())`:
\* the i-th derived address is mapped to the i-th wallet, a later insert of
\* the same key replaces the earlier one.
zip_ata_to_wallet_map(wallet_addresses, ata_addresses) ==
    LET n    == IF Len(wallet_addresses) < Len(ata_addresses)
                THEN Len(wallet_addresses) ELSE Len(ata_addresses)
        at(ata) == CHOOSE i \in 1..n :
                      /\ ata_addresses[i] = ata
                      /\ \A j \in 1..n : ata_addresses[j] = ata => j <= i
    IN  [ ata \in { ata_addresses[i] : i \in 1..n } |-> wallet_addresses[at(ata)] ]

\* The account updates the stream can deliver for the subscribed accounts,
\* given the lamport and token amounts the chain reports: `token` is the
\* result of TokenAccount::unpack on the account data, None when it fails.
AccountUpdates(event_lamports, event_wsol) ==
    [ pubkey   : grpc.wallet_addresses,
      lamports : event_lamports,
      token    : {None} ]
    \cup
    [ pubkey   : DOMAIN grpc.ata_to_wallet_map,
      lamports : {0},
      token    : {None} \cup { Some(m) : m \in event_wsol } ]

\* handle_sol_account_update building the record before the update is
\* applied, from the balances the wallet had.
handle_sol_account_update_record_first(account, map, table, wallet_addresses, t) ==
    IF account.pubkey \in wallet_addresses /\ account.pubkey \in DOMAIN map
    THEN LET old    == map[account.pubkey]
             wallet == update_sol(old, account.lamports, t)
         IN  [ wallets |-> [map EXCEPT ![account.pubkey] = wallet],
               db      |-> IF exceeds_epsilon(wallet.sol_balance, old.sol_balance)
                           THEN save_wallet_history(table,
                                   WalletHistoryRecord_new(old.address, old.sol_balance,
                                                           old.wsol_balance, t))
                           ELSE table ]
    ELSE [ wallets |-> map, db |-> table ]

\* handle_sol_account_update on the locked map; the result is the map and
\* the table after the call.
handle_sol_account_update(account, map, table, wallet_addresses, t) ==
    IF account.pubkey \in wallet_addresses /\ account.pubkey \in DOMAIN map
    THEN LET old_balance == map[account.pubkey].sol_balance
             wallet      == update_sol(map[account.pubkey], account.lamports, t)
         IN  [ wallets |-> [map EXCEPT ![account.pubkey] = wallet],
               db      |-> IF exceeds_epsilon(wallet.sol_balance, old_balance)
                           THEN save_wallet_history(table,
                                   WalletHistoryRecord_new(wallet.address, wallet.sol_balance,
                                                           wallet.wsol_balance, t))
                           ELSE table ]
    ELSE [ wallets |-> map, db |-> table ]

\* handle_wsol_account_update taking an undecodable payload for amount 0
\* (`unwrap_or_default()` in place of the match on TokenAccount::unpack).
handle_wsol_account_update_default_on_error(account, map, table, ata_to_wallet_map, t) ==
    IF /\ account.pubkey \in DOMAIN ata_to_wallet_map
       /\ ata_to_wallet_map[account.pubkey] \in DOMAIN map
    THEN LET wallet_address == ata_to_wallet_map[account.pubkey]
             wsol_balance   == IF account.token = None THEN 0 ELSE account.token[1]
             old_balance    == map[wallet_address].wsol_balance
             wallet         == update_wsol(map[wallet_address], wsol_balance, t)
         IN  [ wallets |-> [map EXCEPT ![wallet_address] = wallet],
               db      |-> IF exceeds_epsilon(wsol_balance, old_balance)
                           THEN save_wallet_history(table,
                                   WalletHistoryRecord_new(wallet.address, wallet.sol_balance,
                                                           wallet.wsol_balance, t))
                           ELSE table ]
    ELSE [ wallets |-> map, db |-> table ]

\* handle_wsol_account_update on the locked map.
handle_wsol_account_update(account, map, table, ata_to_wallet_map, t) ==
    IF /\ account.pubkey \in DOMAIN ata_to_wallet_map
       /\ account.token # None
       /\ ata_to_wallet_map[account.pubkey] \in DOMAIN map
    THEN LET wallet_address == ata_to_wallet_map[account.pubkey]
             wsol_balance   == account.token[1]
             old_balance    == map[wallet_address].wsol_balance
             wallet         == update_wsol(map[wallet_address], wsol_balance, t)
         IN  [ wallets |-> [map EXCEPT ![wallet_address] = wallet],
               db      |-> IF exceeds_epsilon(wsol_balance, old_balance)
                           THEN save_wallet_history(table,
                                   WalletHistoryRecord_new(wallet.address, wallet.sol_balance,
                                                           wallet.wsol_balance, t))
                           ELSE table ]
    ELSE [ wallets |-> map, db |-> table ]

\* The wallet an account update is about, "" when it is about none.
update_owner(account) ==
    IF account.pubkey \in grpc.wallet_addresses THEN account.pubkey
    ELSE IF account.pubkey \in DOMAIN grpc.ata_to_wallet_map
         THEN grpc.ata_to_wallet_map[account.pubkey]
         ELSE ""

\* The client is built and connected; the tracked addresses are read under
\* the lock and the ATA map is computed from them.
GrpcConnect ==
    /\ grpc.pc = "connect"
    /\ \E wallet_addresses \in keys_collect(wallets) :
          LET ata_addresses == calculate_all_wsol_atas(wallet_addresses)
          IN  grpc' = [grpc EXCEPT
                         !.pc = "subscribe",
                         !.wallet_addresses = DOMAIN wallets,
                         !.ata_to_wallet_map =
                             zip_ata_to_wallet_map(wallet_addresses, ata_addresses)]
    /\ last' = taken("connect", "", None)
    /\ UNCHANGED << config, startup, wallets, db, now, grpc_restart_signal, req, ws,
                    started, removed >>

\* build_from_shared or connect fails.
GrpcConnectFailed ==
    /\ grpc.pc = "connect"
    /\ grpc' = [grpc EXCEPT !.pc = "backoff"]
    /\ last' = taken("connect_failed", "", None)
    /\ UNCHANGED << config, startup, wallets, db, now, grpc_restart_signal, req, ws,
                    started, removed >>

\* The accounts filter of the SubscribeRequest: the wallet addresses and the
\* derived addresses (the keys of the map are all of ata_addresses, the zip
\* being as long as ata_addresses).
accounts_filter(g) ==
    [ wallet_accounts   |-> g.wallet_addresses,
      wsol_ata_accounts |-> DOMAIN g.ata_to_wallet_map ]

\* client.subscribe() succeeds and the request is sent.
GrpcSubscribe ==
    /\ grpc.pc = "subscribe"
    /\ grpc' = [grpc EXCEPT !.pc = "streaming"]
    /\ last' = taken_with("subscribe", "", None, accounts_filter(grpc))
    /\ UNCHANGED << config, startup, wallets, db, now, grpc_restart_signal, req, ws,
                    started, removed >>

\* client.subscribe() fails.
GrpcSubscribeFailed ==
    /\ grpc.pc = "subscribe"
    /\ grpc' = [grpc EXCEPT !.pc = "backoff"]
    /\ last' = taken("subscribe_failed", "", None)
    /\ UNCHANGED << config, startup, wallets, db, now, grpc_restart_signal, req, ws,
                    started, removed >>

\* subscribe_tx.send(request) fails: `continue`, the next iteration of the
\* outer loop starts without the sleep.
GrpcSendFailed ==
    /\ grpc.pc = "subscribe"
    /\ grpc' = [grpc EXCEPT !.pc = "connect"]
    /\ last' = taken("send_failed", "", None)
    /\ UNCHANGED << config, startup, wallets, db, now, grpc_restart_signal, req, ws,
                    started, removed >>

\* A restart that sends a fresh filter on the connection it has, without the
\* sleep.
GrpcRestartResubscribes ==
    /\ grpc.pc = "streaming"
    /\ grpc.messages < MaxMessages
    /\ grpc_restart_signal
    /\ grpc_restart_signal' = FALSE
    /\ grpc' = [grpc EXCEPT
                  !.pc = "subscribe",
                  !.messages = @ + 1,
                  !.wallet_addresses = DOMAIN wallets,
                  !.ata_to_wallet_map =
                      LET wallet_addresses == CHOOSE order \in keys_collect(wallets) : TRUE
                      IN  zip_ata_to_wallet_map(wallet_addresses,
                                                calculate_all_wsol_atas(wallet_addresses))]
    /\ last' = taken("restart", "", None)
    /\ UNCHANGED << config, startup, wallets, db, now, req, ws, started, removed >>

\* A message arrives while the restart signal is set: the signal is reset
\* and the inner loop is left; the message is not handled.
GrpcRestart ==
    /\ grpc.pc = "streaming"
    /\ grpc.messages < MaxMessages
    /\ grpc_restart_signal
    /\ grpc_restart_signal' = FALSE
    /\ grpc' = [grpc EXCEPT !.pc = "backoff", !.messages = @ + 1]
    /\ last' = taken("restart", "", None)
    /\ UNCHANGED << config, startup, wallets, db, now, req, ws, started, removed >>

\* GrpcRestart with the message that arrived on record: the check of the
\* signal comes before the match on the message, so the message is dropped
\* whatever it is.
GrpcRestartOn(message) ==
    /\ grpc.pc = "streaming"
    /\ grpc.messages < MaxMessages
    /\ grpc_restart_signal
    /\ grpc_restart_signal' = FALSE
    /\ grpc' = [grpc EXCEPT !.pc = "backoff", !.messages = @ + 1]
    /\ last' = taken_with("restart", "", None, message)
    /\ UNCHANGED << config, startup, wallets, db, now, req, ws, started, removed >>

\* Ok(update) with an account update arrives: both handlers run on it under
\* one lock of the map.
GrpcAccountUpdate(account) ==
    /\ grpc.pc = "streaming"
    /\ grpc.messages < MaxMessages
    /\ ~grpc_restart_signal
    /\ LET sol  == handle_sol_account_update(account, wallets, db,
                                             grpc.wallet_addresses, now)
           wsol == handle_wsol_account_update(account, sol.wallets, sol.db,
                                              grpc.ata_to_wallet_map, now)
       IN  /\ wallets' = wsol.wallets
           /\ db' = wsol.db
    /\ grpc' = [grpc EXCEPT !.messages = @ + 1]
    /\ last' = taken_with("account_update", update_owner(account),
                          map_get(wallets, update_owner(account)), account)
    /\ UNCHANGED << config, startup, now, grpc_restart_signal, req, ws,
                    started, removed >>

\* Ok(update) with an update that is no account update arrives.
GrpcOtherUpdate ==
    /\ grpc.pc = "streaming"
    /\ grpc.messages < MaxMessages
    /\ ~grpc_restart_signal
    /\ grpc' = [grpc EXCEPT !.messages = @ + 1]
    /\ last' = taken("other_update", "", None)
    /\ UNCHANGED << config, startup, wallets, db, now, grpc_restart_signal, req, ws,
                    started, removed >>

\* Err(e) arrives while the restart signal is not set.
GrpcStreamError ==
    /\ grpc.pc = "streaming"
    /\ grpc.messages < MaxMessages
    /\ ~grpc_restart_signal
    /\ grpc' = [grpc EXCEPT !.pc = "backoff", !.messages = @ + 1]
    /\ last' = taken("stream_error", "", None)
    /\ UNCHANGED << config, startup, wallets, db, now, grpc_restart_signal, req, ws,
                    started, removed >>

\* The end of the stream taken for the end of the task: `return Ok(())`.
GrpcStreamEndReturns ==
    /\ grpc.pc = "streaming"
    /\ grpc' = [grpc EXCEPT !.pc = "returned"]
    /\ last' = taken("stream_end", "", None)
    /\ UNCHANGED << config, startup, wallets, db, now, grpc_restart_signal, req, ws,
                    started, removed >>

\* subscribe_rx.next() returns None: the stream has ended.
GrpcStreamEnd ==
    /\ grpc.pc = "streaming"
    /\ grpc' = [grpc EXCEPT !.pc = "backoff"]
    /\ last' = taken("stream_end", "", None)
    /\ UNCHANGED << config, startup, wallets, db, now, grpc_restart_signal, req, ws,
                    started, removed >>

\* tokio::time::sleep(10 s) returns.
GrpcBackoff ==
    /\ grpc.pc = "backoff"
    /\ grpc' = [grpc EXCEPT !.pc = "connect"]
    /\ last' = taken("backoff", "", None)
    /\ UNCHANGED << config, startup, wallets, db, now, grpc_restart_signal, req, ws,
                    started, removed >>

\* The loop while no handler sets the restart signal.
GrpcUnsignalled(event_lamports, event_wsol) ==
    \/ GrpcConnect
    \/ GrpcConnectFailed
    \/ GrpcSubscribe
    \/ GrpcSubscribeFailed
    \/ GrpcSendFailed
    \/ \E account \in AccountUpdates(event_lamports, event_wsol) :
          GrpcAccountUpdate(account)
    \/ GrpcOtherUpdate
    \/ GrpcStreamError
    \/ GrpcStreamEnd
    \/ GrpcBackoff

Grpc(event_lamports, event_wsol) ==
    GrpcUnsignalled(event_lamports, event_wsol) \/ GrpcRestart

(***************************************************************************)
(* The HTTP handlers add_wallet and delete_wallet (main.rs:535-671).  A    *)
(* handler in flight is an element of req, in the order of arrival; its pc *)
(* names the step it takes next.  A handler that returns leaves req, and   *)
(* the step's `last.arg` is the HTTP status it returns.  The rewriting of  *)
(* config.toml is not modelled.                                            *)
(***************************************************************************)
request(op, pc, name, address, wallet, fetched) ==
    [ op |-> op, pc |-> pc, name |-> name, address |-> address,
      wallet |-> wallet, fetched |-> fetched ]

\* req without its i-th element.
remove_at(s, i) == SubSeq(s, 1, i - 1) \o SubSeq(s, i + 1, Len(s))

\* Addresses a client may post, one of them shorter than 32 characters.
PostedAddresses == Addresses \cup {"2short"}

\* The request passes the checks on name and address (both arrive trimmed).
valid_add_request(name, address) ==
    /\ name # ""
    /\ address # ""
    /\ Len(address) >= 32
    /\ Len(address) <= 44

\* The status add_wallet returns from its checks, "" when it goes on.
add_wallet_rejection(name, address, map) ==
    IF ~valid_add_request(name, address) THEN "400"
    ELSE IF address \in DOMAIN map THEN "409"
    ELSE IF \E a \in DOMAIN map : map[a].name = name THEN "409"
    ELSE ""

\* add_wallet up to the end of its first locked block: validation, then the
\* duplicate checks on address and name, then WalletBalance::new.
AddWalletCheck(name, address) ==
    /\ startup.pc = "running"
    /\ started < MaxRequests
    /\ started' = started + 1
    /\ LET status == add_wallet_rejection(name, address, wallets)
       IN  /\ req' = IF status = ""
                     THEN Append(req, request("add", "fetch", name, address,
                                     Some(WalletBalance_new(address, name, now)), None))
                     ELSE req
           /\ last' = taken_with("add_check", address, map_get(wallets, address), status)
    /\ UNCHANGED << config, startup, wallets, db, now, grpc_restart_signal, grpc, ws,
                    removed >>

\* query_wallet_balance returns Err: 500.
AddWalletFetchFailed(i) ==
    /\ i \in DOMAIN req
    /\ req[i].op = "add" /\ req[i].pc = "fetch"
    /\ req' = remove_at(req, i)
    /\ last' = taken_with("add_fetch_failed", req[i].address,
                          map_get(wallets, req[i].address), "500")
    /\ UNCHANGED << config, startup, wallets, db, now, grpc_restart_signal, grpc, ws,
                    started, removed >>

\* query_wallet_balance returns Ok((sol_balance, wsol_balance)): update_sol
\* and initialize_wsol on the new wallet, then the initial record is saved.
AddWalletFetched(i, lamports, wsol) ==
    /\ i \in DOMAIN req
    /\ req[i].op = "add" /\ req[i].pc = "fetch"
    /\ LET new_wallet == initialize_wsol(
                            update_sol(req[i].wallet[1], sol_to_lamports(lamports), now),
                            wsol, now)
       IN  /\ req' = [req EXCEPT ![i].pc = "insert",
                                 ![i].wallet = Some(new_wallet),
                                 ![i].fetched = Some([lamports |-> lamports, wsol |-> wsol])]
           /\ db' = save_wallet_history(db,
                       WalletHistoryRecord_new(req[i].address, new_wallet.sol_balance,
                                               new_wallet.wsol_balance, now))
    /\ removed' = removed \ {req[i].address}
    /\ last' = taken_with("add_fetched", req[i].address, req[i].wallet,
                          [i |-> i, lamports |-> lamports, wsol |-> wsol])
    /\ UNCHANGED << config, startup, wallets, now, grpc_restart_signal, grpc, ws, started >>

\* The second locked block: wallets_guard.insert(address, new_wallet).
AddWalletInsert(i) ==
    /\ i \in DOMAIN req
    /\ req[i].op = "add" /\ req[i].pc = "insert"
    /\ wallets' = map_insert(wallets, req[i].address, req[i].wallet[1])
    /\ req' = [req EXCEPT ![i].pc = "signal", ![i].wallet = None, ![i].fetched = None]
    /\ last' = taken_with("add_insert", req[i].address, map_get(wallets, req[i].address),
                          req[i].fetched[1])
    /\ removed' = removed \ {req[i].address}
    /\ UNCHANGED << config, startup, db, now, grpc_restart_signal, grpc, ws, started >>

\* An add_wallet that answers 200 without setting the restart signal.
AddWalletSignalForgotten(i) ==
    /\ i \in DOMAIN req
    /\ req[i].op = "add" /\ req[i].pc = "signal"
    /\ grpc_restart_signal' = grpc_restart_signal
    /\ req' = remove_at(req, i)
    /\ last' = taken_with("add_signal", req[i].address,
                          map_get(wallets, req[i].address), "200")
    /\ UNCHANGED << config, startup, wallets, db, now, grpc, ws, started, removed >>

\* *restart_signal = true, then 200.
AddWalletSignal(i) ==
    /\ i \in DOMAIN req
    /\ req[i].op = "add" /\ req[i].pc = "signal"
    /\ grpc_restart_signal' = TRUE
    /\ req' = remove_at(req, i)
    /\ last' = taken_with("add_signal", req[i].address,
                          map_get(wallets, req[i].address), "200")
    /\ UNCHANGED << config, startup, wallets, db, now, grpc, ws, started, removed >>

\* delete_wallet, its locked block: wallets_guard.remove(&address), or 404.
DeleteWalletRemove(address) ==
    /\ startup.pc = "running"
    /\ started < MaxRequests
    /\ started' = started + 1
    /\ IF address \in DOMAIN wallets
       THEN /\ wallets' = map_remove(wallets, address)
            /\ req' = Append(req, request("delete", "purge", wallets[address].name,
                                          address, None, None))
            /\ last' = taken_with("delete_remove", address, map_get(wallets, address), "")
       ELSE /\ wallets' = wallets
            /\ req' = req
            /\ last' = taken_with("delete_remove", address, None, "404")
    /\ UNCHANGED << config, startup, db, now, grpc_restart_signal, grpc, ws, removed >>

\* The removal of a wallet is complete when its records are purged, unless
\* the wallet is tracked again by then or an add_wallet for it has already
\* saved its initial record.
removal_complete(address) ==
    /\ address \notin DOMAIN wallets
    /\ ~\E j \in DOMAIN req :
          req[j].op = "add" /\ req[j].address = address /\ req[j].pc = "insert"

\* delete_wallet_history(&state.database, &address).
DeleteWalletPurge(i) ==
    /\ i \in DOMAIN req
    /\ req[i].op = "delete" /\ req[i].pc = "purge"
    /\ db' = delete_wallet_history(db, req[i].address)
    /\ req' = [req EXCEPT ![i].pc = "signal"]
    /\ removed' = IF removal_complete(req[i].address) THEN removed \cup {req[i].address}
                   ELSE removed
    /\ last' = taken("delete_purge", req[i].address, map_get(wallets, req[i].address))
    /\ UNCHANGED << config, startup, wallets, now, grpc_restart_signal, grpc, ws, started >>

\* *restart_signal = true, then 200.
DeleteWalletSignal(i) ==
    /\ i \in DOMAIN req
    /\ req[i].op = "delete" /\ req[i].pc = "signal"
    /\ grpc_restart_signal' = TRUE
    /\ req' = remove_at(req, i)
    /\ last' = taken_with("delete_signal", req[i].address,
                          map_get(wallets, req[i].address), "200")
    /\ UNCHANGED << config, startup, wallets, db, now, grpc, ws, started, removed >>

\* The handlers, for requests that name the given names and addresses and
\* an RPC node that reports the given balances.
Requests(names, addresses, rpc_lamports, rpc_wsol) ==
    \/ \E name \in names, address \in addresses : AddWalletCheck(name, address)
    \/ \E i \in 1..MaxRequests : AddWalletFetchFailed(i)
    \/ \E i \in 1..MaxRequests, lamports \in rpc_lamports, wsol \in rpc_wsol :
          AddWalletFetched(i, lamports, wsol)
    \/ \E i \in 1..MaxRequests : AddWalletInsert(i)
    \/ \E i \in 1..MaxRequests : AddWalletSignal(i)
    \/ \E address \in addresses \cap Addresses : DeleteWalletRemove(address)
    \/ \E i \in 1..MaxRequests : DeleteWalletPurge(i)
    \/ \E i \in 1..MaxRequests : DeleteWalletSignal(i)

(***************************************************************************)
(* The broadcaster, websocket_connection (main.rs:673-780), one per        *)
(* client.  pc: "closed" (no connection), "wait" (in select!), "detail"    *)
(* (in the loop over current_data), "send" (the loops are over).           *)
(***************************************************************************)
Clients == {"c1", "c2"}

closed_connection ==
    [ pc |-> "closed", last_sent_data |-> None, current_data |-> << >>,
      todo |-> {}, updates |-> {} ]

\* The tuple (sol, wsol, total, timestamp) the tick stores for a wallet.
snapshot_entry(w) ==
    [ sol |-> w.sol_balance, wsol |-> w.wsol_balance,
      total |-> total_balance(w), timestamp |-> w.last_update ]

\* A comparison that takes every wallet for changed on the first tick only.
has_change_first_tick_only(address, current_data, last_sent_data) ==
    last_sent_data = None

\* has_change: f64::EPSILON is far below one lamport (1e-9), so any two
\* different amounts differ by more than it.
has_change(address, current_data, last_sent_data) ==
    IF last_sent_data = None THEN TRUE
    ELSE IF address \notin DOMAIN last_sent_data[1] THEN TRUE
    ELSE LET cur == current_data[address]
             old == last_sent_data[1][address]
         IN  \/ Abs(cur.sol - old.sol) > 0
             \/ Abs(cur.wsol - old.wsol) > 0
             \/ Abs(cur.total - old.total) > 0
             \/ cur.timestamp # old.timestamp

\* DateTime::timestamp(): seconds of a millisecond time.
timestamp_seconds(t) == t \div 1000

\* The "update" entry built from a wallet under the lock.
update_entry(w) ==
    [ type          |-> "update",
      address       |-> w.address,
      name          |-> w.name,
      sol_balance   |-> w.sol_balance,
      wsol_balance  |-> IF w.wsol_initialized THEN w.wsol_balance ELSE 0,
      total_balance |-> total_balance(w),
      last_update   |-> w.last_update,
      latest_data   |-> IF w.history = <<>> THEN None
                        ELSE LET h == w.history[Len(w.history)]
                             IN  Some([ time          |-> timestamp_seconds(h.timestamp),
                                        sol_balance   |-> h.sol_balance,
                                        wsol_balance  |-> h.wsol_balance,
                                        total_balance |-> h.total_balance ]) ]

\* The "delete" entries of a tick.
delete_entries(current_data, last_sent_data) ==
    IF last_sent_data = None THEN {}
    ELSE { [type |-> "delete", address |-> a] :
             a \in DOMAIN last_sent_data[1] \ DOMAIN current_data }

\* ws.on_upgrade: the connection task starts.
WsUpgrade(c) ==
    /\ startup.pc = "running"
    /\ ws[c].pc = "closed"
    /\ ws' = [ws EXCEPT ![c] = [closed_connection EXCEPT !.pc = "wait"]]
    /\ last' = taken("ws_upgrade", "", None)
    /\ UNCHANGED << config, startup, wallets, db, now, grpc_restart_signal, grpc, req,
                    started, removed >>

\* interval.tick(): current_data is collected under the lock.  The wallets
\* for which has_change holds are those the loop will look up.
WsTick(c) ==
    /\ ws[c].pc = "wait"
    /\ LET current_data == [a \in DOMAIN wallets |-> snapshot_entry(wallets[a])]
       IN  ws' = [ws EXCEPT ![c].pc = "detail",
                            ![c].current_data = current_data,
                            ![c].todo = { a \in DOMAIN current_data :
                                            has_change(a, current_data, ws[c].last_sent_data) },
                            ![c].updates = {}]
    /\ last' = taken_with("ws_tick", "", None, c)
    /\ UNCHANGED << config, startup, wallets, db, now, grpc_restart_signal, grpc, req,
                    started, removed >>

\* One iteration of the loop for a changed wallet: the map is locked again
\* and the entry is built from the wallet, if it is still there.
WsDetail(c, address) ==
    /\ ws[c].pc = "detail"
    /\ address \in ws[c].todo
    /\ ws' = [ws EXCEPT ![c].todo = @ \ {address},
                        ![c].updates = IF address \in DOMAIN wallets
                                       THEN @ \cup {update_entry(wallets[address])}
                                       ELSE @]
    /\ last' = taken_with("ws_detail", address, map_get(wallets, address), c)
    /\ UNCHANGED << config, startup, wallets, db, now, grpc_restart_signal, grpc, req,
                    started, removed >>

\* The batch of the tick: the update entries and the delete entries.
batch(conn) == conn.updates \cup delete_entries(conn.current_data, conn.last_sent_data)

\* A send after which last_sent_data is left as it was.
WsSendKeepsLastSent(c) ==
    /\ ws[c].pc = "detail"
    /\ ws[c].todo = {}
    /\ batch(ws[c]) # {}
    /\ ws' = [ws EXCEPT ![c].pc = "wait", ![c].current_data = << >>, ![c].updates = {}]
    /\ last' = taken_with("ws_send", "", None, [client |-> c, batch |-> batch(ws[c])])
    /\ UNCHANGED << config, startup, wallets, db, now, grpc_restart_signal, grpc, req,
                    started, removed >>

\* The loops are over and the batch is not empty: socket.send succeeds,
\* last_sent_data = Some(current_data).
WsSend(c) ==
    /\ ws[c].pc = "detail"
    /\ ws[c].todo = {}
    /\ batch(ws[c]) # {}
    /\ ws' = [ws EXCEPT ![c].pc = "wait",
                        ![c].last_sent_data = Some(ws[c].current_data),
                        ![c].current_data = << >>,
                        ![c].updates = {}]
    /\ last' = taken_with("ws_send", "", None, [client |-> c, batch |-> batch(ws[c])])
    /\ UNCHANGED << config, startup, wallets, db, now, grpc_restart_signal, grpc, req,
                    started, removed >>

\* A failed send that takes the other connections down with it.
WsSendFailedClosesAll(c) ==
    /\ ws[c].pc = "detail"
    /\ ws[c].todo = {}
    /\ batch(ws[c]) # {}
    /\ ws' = [d \in DOMAIN ws |-> closed_connection]
    /\ last' = taken("ws_send_failed", "", None)
    /\ UNCHANGED << config, startup, wallets, db, now, grpc_restart_signal, grpc, req,
                    started, removed >>

\* The batch is not empty and socket.send fails: the task ends.
WsSendFailed(c) ==
    /\ ws[c].pc = "detail"
    /\ ws[c].todo = {}
    /\ batch(ws[c]) # {}
    /\ ws' = [ws EXCEPT ![c] = closed_connection]
    /\ last' = taken("ws_send_failed", "", None)
    /\ UNCHANGED << config, startup, wallets, db, now, grpc_restart_signal, grpc, req,
                    started, removed >>

\* A tick without a message that stores current_data all the same.
WsSkipReplaces(c) ==
    /\ ws[c].pc = "detail"
    /\ ws[c].todo = {}
    /\ batch(ws[c]) = {}
    /\ ws' = [ws EXCEPT ![c].pc = "wait",
                        ![c].last_sent_data = Some(ws[c].current_data),
                        ![c].current_data = << >>,
                        ![c].updates = {}]
    /\ last' = taken("ws_skip", "", None)
    /\ UNCHANGED << config, startup, wallets, db, now, grpc_restart_signal, grpc, req,
                    started, removed >>

\* The batch is empty: nothing is sent and last_sent_data is kept.
WsSkip(c) ==
    /\ ws[c].pc = "detail"
    /\ ws[c].todo = {}
    /\ batch(ws[c]) = {}
    /\ ws' = [ws EXCEPT ![c].pc = "wait", ![c].current_data = << >>, ![c].updates = {}]
    /\ last' = taken("ws_skip", "", None)
    /\ UNCHANGED << config, startup, wallets, db, now, grpc_restart_signal, grpc, req,
                    started, removed >>

\* socket.recv() returns None: the client has gone, the task ends.
WsClosed(c) ==
    /\ ws[c].pc = "wait"
    /\ ws' = [ws EXCEPT ![c] = closed_connection]
    /\ last' = taken("ws_closed", "", None)
    /\ UNCHANGED << config, startup, wallets, db, now, grpc_restart_signal, grpc, req,
                    started, removed >>

Ws(clients) ==
    \/ \E c \in clients : WsUpgrade(c)
    \/ \E c \in clients : WsTick(c)
    \/ \E c \in clients, address \in Addresses : WsDetail(c, address)
    \/ \E c \in clients : WsSend(c)
    \/ \E c \in clients : WsSendFailed(c)
    \/ \E c \in clients : WsSkip(c)
    \/ \E c \in clients : WsClosed(c)

(***************************************************************************)
(* GET /api/chart (main.rs:435-533).  Times of chart points are epoch      *)
(* seconds; history timestamps are milliseconds.                           *)
(***************************************************************************)
\* The `interval` and `type` query parameters tried: every token the handler
\* names and one it does not.
Intervals == {"5M", "10M", "30M", "1H", "2H", "4H", "8H", "12H", "1D", "1W", "ALL", "1Y"}

DataTypes == {"sol", "wsol", "total", "usd"}

\* The keys of the elements of a sequence of chart points (|point|
\* point.time) and of history points (|h| h.timestamp).
point_times(s) == [ j \in 1..Len(s) |-> s[j].time ]

history_timestamps(s) == [ j \in 1..Len(s) |-> s[j].timestamp ]

\* A stable sort by an integer key: `sort_by_key`, keys[j] being the key of
\* s[j].  The element at place r is the one with r - 1 elements before it in
\* (key, position) order.
sort_by_key(s, keys) ==
    IF \A j \in 1..(Len(s) - 1) : keys[j] <= keys[j + 1] THEN s
    ELSE LET before(j) ==
                 Cardinality({ k \in 1..Len(s) :
                                 \/ keys[k] < keys[j]
                                 \/ keys[k] = keys[j] /\ k < j })
         IN  [ r \in 1..Len(s) |-> s[CHOOSE j \in 1..Len(s) : before(j) = r - 1] ]

\* `dedup_by_key`: of each run of consecutive elements with the same key the
\* first is kept.
dedup_by_key(s, keys) ==
    LET kept == SelectSeq([ j \in 1..Len(s) |-> j ],
                          LAMBDA j : j = 1 \/ keys[j] # keys[j - 1])
    IN  [ r \in 1..Len(kept) |-> s[kept[r]] ]

\* chrono's num_minutes(), num_hours(), num_days(), num_weeks(): the whole
\* units of a signed duration in milliseconds, truncated toward zero.
num_units(duration, unit) ==
    IF duration >= 0 THEN duration \div unit ELSE -((-duration) \div unit)

num_minutes(duration) == num_units(duration, 60000)

num_hours(duration) == num_units(duration, 3600000)

num_days(duration) == num_units(duration, 86400000)

num_weeks(duration) == num_units(duration, 604800000)

\* The filter of the `match params.interval.as_str()` arms, for one point.
within_interval(interval, t, h) ==
    LET duration == t - h.timestamp   \* now.signed_duration_since(h.timestamp)
    IN  CASE interval = "5M"  -> num_minutes(duration) <= 5
          [] interval = "10M" -> num_minutes(duration) <= 10
          [] interval = "30M" -> num_minutes(duration) <= 30
          [] interval = "1H"  -> num_hours(duration) <= 1
          [] interval = "2H"  -> num_hours(duration) <= 2
          [] interval = "4H"  -> num_hours(duration) <= 4
          [] interval = "8H"  -> num_hours(duration) <= 8
          [] interval = "12H" -> num_hours(duration) <= 12
          [] interval = "1D"  -> num_days(duration) <= 1
          [] interval = "1W"  -> num_weeks(duration) <= 1
          [] OTHER            -> TRUE

\* The ChartDataPoint of a history point.  Amounts of the model are finite,
\* so the is_finite test of the filter_map keeps every point.
chart_point(data_type, h) ==
    [ time  |-> timestamp_seconds(h.timestamp),
      value |-> CASE data_type = "sol"  -> h.sol_balance
                  [] data_type = "wsol" -> h.wsol_balance
                  [] OTHER              -> h.total_balance ]

\* chart_data without the dedup_by_key of line 487.
chart_data_of_undeduplicated(history, data_type, interval, t) ==
    LET sorted   == sort_by_key(history, history_timestamps(history))
        filtered == SelectSeq(sorted, LAMBDA h : within_interval(interval, t, h))
    IN  [ j \in 1..Len(filtered) |-> chart_point(data_type, filtered[j]) ]

\* chart_data before sampling: sorted, filtered, converted, deduplicated.
chart_data_of(history, data_type, interval, t) ==
    LET sorted   == sort_by_key(history, history_timestamps(history))
        filtered == SelectSeq(sorted, LAMBDA h : within_interval(interval, t, h))
        points   == [ j \in 1..Len(filtered) |-> chart_point(data_type, filtered[j]) ]
    IN  dedup_by_key(points, point_times(points))

\* The number of points above which the handler samples, and of targets.
CHART_CAP == 1000

\* (i, time_span) for which the f64 product i * (time_span / 999.0) is just
\* below the whole number i * time_span / 999, so that `as i64` gives one
\* less: 999 * (1003.0 / 999.0) = 1002.9999999999999.  More than CHART_CAP
\* distinct seconds span at least 1000 seconds; among the spans from 1000 to
\* 1003 seconds this is the only pair (the next spans with one are 1008,
\* 1013, 1018, ...).
F64ShortProducts == { <<999, 1003>> }

\* (i as f64 * sample_interval) as i64, sample_interval = time_span / 999.0.
target_offset(i, time_span) ==
    IF <<i, time_span>> \in F64ShortProducts
    THEN (i * time_span) \div (CHART_CAP - 1) - 1
    ELSE (i * time_span) \div (CHART_CAP - 1)

\* min_by_key(|point| (point.time - target_time).abs()): of several points at
\* the least distance the first one.
closest_point(chart_data, target_time) ==
    LET distance(j) == Abs(chart_data[j].time - target_time)
        distances   == { distance(j) : j \in 1..Len(chart_data) }
        least       == CHOOSE d \in distances : \A e \in distances : d <= e
    IN  chart_data[CHOOSE j \in 1..Len(chart_data) :
                       /\ distance(j) = least
                       /\ \A k \in 1..(j - 1) : distance(k) # least]

\* The sampling branch, for more than CHART_CAP points.
sampled_data(chart_data) ==
    LET start_time == chart_data[1].time
        end_time   == chart_data[Len(chart_data)].time
        time_span  == end_time - start_time
    IN  IF time_span <= 0 THEN chart_data
        ELSE LET pushed == [ i \in 1..CHART_CAP |->
                               closest_point(chart_data,
                                             start_time + target_offset(i - 1, time_span)) ]
                 sorted == sort_by_key(pushed, point_times(pushed))
             IN  dedup_by_key(sorted, point_times(sorted))

\* The body of the response.
chart_response(history, data_type, interval, t) ==
    LET chart_data == chart_data_of(history, data_type, interval, t)
    IN  IF Len(chart_data) > CHART_CAP THEN sampled_data(chart_data) ELSE chart_data

\* The handler, under the lock of the map; 404 for an address not tracked.
GetChartData(wallet, data_type, interval) ==
    /\ startup.pc = "running"
    /\ last' = taken_with("get_chart_data", wallet, map_get(wallets, wallet),
                          [ data_type |-> data_type,
                            interval  |-> interval,
                            now       |-> now,
                            response  |-> IF wallet \in DOMAIN wallets
                                          THEN Some(chart_response(wallets[wallet].history,
                                                                   data_type, interval, now))
                                          ELSE None ])
    /\ UNCHANGED << config, startup, wallets, db, now, grpc_restart_signal, grpc, req,
                    ws, started, removed >>

Chart(addresses, data_types, intervals) ==
    \E wallet \in addresses, data_type \in data_types, interval \in intervals :
        GetChartData(wallet, data_type, interval)

(***************************************************************************)
(* Specifications.                                                         *)
(***************************************************************************)
\* The whole program.
Next ==
    \/ Tick
    \/ Startup
    \/ Grpc(EventLamports, EventWsol)
    \/ Requests(Names, PostedAddresses, RpcLamports, RpcWsol)
    \/ Chart(Addresses, DataTypes, Intervals)
    \/ Ws(Clients)

Spec == Init /\ [][Next]_vars

\* Start-up and ingestion: the store and the history table without clients.
\* Only the HTTP handlers set the restart signal, so it stays unset here.
NextStore == Tick \/ Startup \/ GrpcUnsignalled(EventLamports, EventWsol)

SpecStore == Init /\ [][NextStore]_vars

\* Start-up, ingestion and one WebSocket client.
NextObserved == Startup \/ GrpcUnsignalled(EventLamports, EventWsol) \/ Ws({"c1"})

SpecObserved == Init /\ [][NextObserved]_vars

\* A process started with no configured wallet and an empty table.
InitEmpty == Init /\ config = <<>> /\ db = {}

\* The HTTP handlers alone, on a process started empty.
NextApi ==
    \/ StartupBeginRpc
    \/ StartupServe
    \/ Requests(Names, PostedAddresses, RpcLamports, RpcWsol)

SpecApi == InitEmpty /\ [][NextApi]_vars

\* Start-up and the HTTP handlers for one wallet that is not configured.
NextInitialize ==
    \/ Startup
    \/ Requests({"bob"}, {WalletB}, RpcLamports, RpcWsol)

SpecInitialize == Init /\ [][NextInitialize]_vars

\* Add and delete requests for one wallet, racing with the ingestion loop
\* and one WebSocket client, on a process started empty.
NextRemoval ==
    \/ StartupBeginRpc
    \/ StartupServe
    \/ Requests({"alice"}, {WalletA}, {1200}, {2500})
    \/ Grpc({1200}, {2500})
    \/ Ws({"c1"})

SpecRemoval == InitEmpty /\ [][NextRemoval]_vars

\* The ingestion loop and the handlers that signal it, on a process started
\* empty.  Fairness: the awaits of the loop return (the 10 s sleep ends; a
\* connection attempt succeeds or fails), and the loop, being a spawned
\* task, is scheduled.
NextIngestion ==
    \/ StartupBeginRpc
    \/ StartupServe
    \/ Requests({"alice"}, {WalletA}, {1200}, {2500})
    \/ Grpc({1200}, {2500})

SpecIngestion ==
    /\ InitEmpty
    /\ [][NextIngestion]_vars
    /\ WF_vars(GrpcBackoff)
    /\ WF_vars(GrpcConnect \/ GrpcConnectFailed)

\* The chart handler alone, on a process that has been serving for two weeks
\* and tracks one wallet.  The histories are of sizes the source's cap
\* (10,000,000 points) allows, whatever the scaled-down MAX_HISTORY_SIZE is.
ChartNow == 1300000000

\* A BalanceHistory point `age` milliseconds before ChartNow.
aged_point(age, sol_balance, wsol_balance) ==
    [ timestamp     |-> ChartNow - age,
      sol_balance   |-> sol_balance,
      wsol_balance  |-> wsol_balance,
      total_balance |-> sol_balance + wsol_balance ]

\* Ages around the window edges: two weeks, one week, two days, one day, two
\* hours, one hour, six and five minutes, each with the millisecond before;
\* two points of one second; the present.
EdgeAges ==
    << 1209600000, 1209599999, 604800000, 172800000, 172799999, 86400000,
       7200000, 7199999, 3600000, 360000, 359999, 300000, 1900, 1100, 0 >>

EdgeHistory ==
    [ j \in 1..Len(EdgeAges) |-> aged_point(EdgeAges[j], 1200 + j, 500 * (j % 2)) ]

\* One point for every second of a span of `time_span` seconds.
DenseHistory(time_span) ==
    [ j \in 1..(time_span + 1) |->
        aged_point((time_span + 1 - j) * 1000, 1200 + (j % 7), 2500) ]

\* 2000 points, evenly spaced, spanning exactly 1000 seconds.
ScenarioHistory ==
    [ j \in 1..2000 |->
        aged_point(1000000 - ((j - 1) * 1000000) \div 1999, 1200 + (j % 7), 2500) ]

ChartHistories ==
    { SubSeq(EdgeHistory, j, Len(EdgeHistory)) : j \in 1..Len(EdgeHistory) }
        \cup { DenseHistory(1003), ScenarioHistory }

InitChart ==
    /\ config = << >>
    /\ db = {}
    /\ startup = [pc |-> "running", i |-> 1, pending |-> {}, address |-> "", wsol |-> 0]
    /\ \E history \in ChartHistories :
          LET newest == history[Len(history)]
          IN  wallets = map_insert(<< >>, WalletA,
                           [ address          |-> WalletA,
                             name             |-> "alice",
                             sol_balance      |-> newest.sol_balance,
                             wsol_balance     |-> newest.wsol_balance,
                             wsol_initialized |-> TRUE,
                             last_update      |-> newest.timestamp,
                             history          |-> history ])
    /\ now = ChartNow
    /\ grpc_restart_signal = FALSE
    /\ grpc = [pc |-> "connect", wallet_addresses |-> {}, ata_to_wallet_map |-> << >>,
               messages |-> 0]
    /\ req = << >>
    /\ started = 0
    /\ removed = {}
    /\ ws = [c \in {"c1", "c2"} |-> closed_connection]
    /\ last = taken("init", "", None)

\* Every token on the histories that need no sampling; on the others the
\* window token that keeps all points and one that keeps some of them.
NextChart ==
    \/ /\ \A a \in DOMAIN wallets : Len(wallets[a].history) <= CHART_CAP
       /\ Chart(Addresses, DataTypes, Intervals)
    \/ /\ \E a \in DOMAIN wallets : Len(wallets[a].history) > CHART_CAP
       /\ Chart({WalletA}, {"total"}, {"ALL", "10M"})

SpecChart == InitChart /\ [][NextChart]_vars

\* A process started with one configured wallet and an empty table.
InitConfigured ==
    Init /\ config = << [address |-> WalletA, name |-> "alice"] >> /\ db = {}

\* One WebSocket client of a process that tracks the configured wallet, while
\* a second wallet is added, removed and added again with another balance.
NextBroadcast ==
    \/ StartupConstruct
    \/ StartupBeginRpc
    \/ \E a \in Addresses : StartupRpcUpdateSol(a, 1200, 2500)
    \/ StartupRpcInitializeWsol
    \/ StartupServe
    \/ Requests({"bob"}, {WalletB}, {15, 1200}, {2500})
    \/ Ws({"c1"})

SpecBroadcast == InitConfigured /\ [][NextBroadcast]_vars

\* Two WebSocket clients of a process started empty, while one wallet is
\* added and removed.
NextClients ==
    \/ StartupBeginRpc
    \/ StartupServe
    \/ Requests({"alice"}, {WalletA}, {1200}, {2500})
    \/ Ws(Clients)

SpecClients == InitEmpty /\ [][NextClients]_vars

\* A process whose config.toml lists an address that is no public key next
\* to a valid one, started on an empty table.
InitMisconfigured ==
    /\ config = << [address |-> WalletInvalid, name |-> "carol"],
                   [address |-> WalletA, name |-> "alice"] >>
    /\ db = {}
    /\ startup = [pc |-> "construct", i |-> 1, pending |-> {}, address |-> "", wsol |-> 0]
    /\ wallets = << >>
    /\ now = 0
    /\ grpc_restart_signal = FALSE
    /\ grpc = [pc |-> "idle", wallet_addresses |-> {}, ata_to_wallet_map |-> << >>,
               messages |-> 0]
    /\ req = << >>
    /\ started = 0
    /\ removed = {}
    /\ ws = [c \in {"c1", "c2"} |-> [ pc |-> "closed", last_sent_data |-> None,
                                       current_data |-> << >>, todo |-> {}, updates |-> {} ]]
    /\ last = taken("init", "", None)

\* Start-up and ingestion of that process: query_wallet_balance fails on the
\* address that does not parse (Pubkey::from_str, main.rs:897) and succeeds
\* on the other.
NextRouting ==
    \/ Tick
    \/ StartupConstruct
    \/ StartupBeginRpc
    \/ \E lamports \in RpcLamports, wsol \in RpcWsol :
          StartupRpcUpdateSol(WalletA, lamports, wsol)
    \/ StartupRpcInitializeWsol
    \/ StartupRpcFailed(WalletInvalid)
    \/ StartupServe
    \/ GrpcUnsignalled(EventLamports, EventWsol)

SpecRouting == InitMisconfigured /\ [][NextRouting]_vars

\* The ingestion loop on a transport that stays connected: every connect,
\* subscribe and send succeeds and the stream neither fails nor ends, while
\* one wallet is added and removed through the API.  Messages arrive when
\* the server has something to send, or never.  Fairness: the steps that are
\* the loop's own (the sleep returns, the connection is made, the request is
\* sent) are taken; the arrival of a message is not the loop's to decide.
NextConnected ==
    \/ StartupBeginRpc
    \/ StartupServe
    \/ Requests({"alice"}, {WalletA}, {1200}, {2500})
    \/ GrpcConnect
    \/ GrpcSubscribe
    \/ \E account \in AccountUpdates(EventLamports, EventWsol) : GrpcAccountUpdate(account)
    \/ GrpcOtherUpdate
    \/ \E message \in AccountUpdates(EventLamports, EventWsol) : GrpcRestartOn(message)
    \/ GrpcBackoff

SpecConnected ==
    /\ InitEmpty
    /\ [][NextConnected]_vars
    /\ WF_vars(GrpcBackoff)
    /\ WF_vars(GrpcConnect)
    /\ WF_vars(GrpcSubscribe)

\* One WebSocket client that stays connected (its sends succeed and it does
\* not close) to a process that tracks the configured wallet, while the
\* ingestion loop applies the account updates the stream delivers.  The
\* stream delivers MaxMessages messages, after which the store no longer
\* changes.  Fairness: the interval of the client's task fires and the task,
\* once woken, runs its tick to the end.
NextConverge ==
    \/ Tick
    \/ StartupConstruct
    \/ StartupBeginRpc
    \/ StartupRpcUpdateSol(WalletA, 15, 0)
    \/ StartupRpcInitializeWsol
    \/ StartupServe
    \/ GrpcConnect
    \/ GrpcSubscribe
    \/ \E account \in AccountUpdates({1200}, {2500}) : GrpcAccountUpdate(account)
    \/ WsUpgrade("c1")
    \/ WsTick("c1")
    \/ WsDetail("c1", WalletA)
    \/ WsSend("c1")
    \/ WsSkip("c1")

SpecConverge ==
    /\ InitConfigured
    /\ [][NextConverge]_vars
    /\ WF_vars(WsTick("c1"))
    /\ WF_vars(WsDetail("c1", WalletA))
    /\ WF_vars(WsSend("c1"))
    /\ WF_vars(WsSkip("c1"))

(***************************************************************************)
(* Properties.                                                             *)
(***************************************************************************)
\* The wallet the last step was about, as it is now (when it is tracked).
LastTracked == last.address \in DOMAIN wallets /\ last.pre # None

\* The last step was one of the store operations on a tracked wallet:
\* update_sol, initialize_wsol, or an account update (update_sol or
\* update_wsol on the owner).
LastIsStoreOperation ==
    /\ last.op \in {"update_sol", "initialize_wsol", "account_update"}
    /\ LastTracked

\* The history point a wallet's current fields make.
point_of(w) ==
    [ timestamp     |-> w.last_update,
      sol_balance   |-> w.sol_balance,
      wsol_balance  |-> w.wsol_balance,
      total_balance |-> w.sol_balance + w.wsol_balance ]

\* C1 (invariant I1): at every observation point the total is the primary
\* amount when wsol_initialized is false and primary + secondary when it is
\* true: in the summary of every tracked wallet, in the history point a store
\* operation has just appended, in the snapshot entries a tick has just
\* collected and in the update entry a tick has just built; and every stored
\* history point and entry carries total = primary + secondary of its own
\* amounts.
C1_TotalIsDerived ==
    /\ \A a \in DOMAIN wallets :
          LET w == wallets[a]
              s == to_summary(w)
          IN  /\ s.total_balance = IF w.wsol_initialized
                                   THEN w.sol_balance + w.wsol_balance
                                   ELSE w.sol_balance
              /\ s.total_balance = s.sol_balance + s.wsol_balance
              /\ \A i \in DOMAIN w.history :
                    w.history[i].total_balance
                        = w.history[i].sol_balance + w.history[i].wsol_balance
    /\ (LastIsStoreOperation /\ wallets[last.address].history # last.pre[1].history)
          => LET w == wallets[last.address]
                 h == w.history[Len(w.history)]
             IN  /\ h.sol_balance = w.sol_balance
                 /\ h.total_balance = IF w.wsol_initialized
                                      THEN w.sol_balance + w.wsol_balance
                                      ELSE w.sol_balance
    /\ \A c \in Clients :
          /\ \A a \in DOMAIN ws[c].current_data :
                LET e == ws[c].current_data[a]
                IN  /\ e.total = e.sol + e.wsol
                    /\ (last.op = "ws_tick" /\ a \in DOMAIN wallets)
                          => e.total = IF wallets[a].wsol_initialized
                                       THEN wallets[a].sol_balance + wallets[a].wsol_balance
                                       ELSE wallets[a].sol_balance
          /\ \A u \in ws[c].updates :
                /\ u.total_balance = u.sol_balance + u.wsol_balance
                /\ (last.op = "ws_detail" /\ last.address = u.address /\ LastTracked)
                      => u.total_balance = IF wallets[u.address].wsol_initialized
                                           THEN wallets[u.address].sol_balance
                                                    + wallets[u.address].wsol_balance
                                           ELSE wallets[u.address].sol_balance

\* Witness of C1: a client has just built the update entry of a wallet whose
\* secondary amount is established and positive and whose history holds a
\* point with that amount.
C1_Witness ==
    /\ last.op = "ws_detail"
    /\ LastTracked
    /\ LET w == wallets[last.address]
       IN  /\ w.wsol_initialized
           /\ w.wsol_balance > 0
           /\ w.sol_balance > 0
           /\ w.history # <<>>
           /\ w.history[Len(w.history)].wsol_balance = w.wsol_balance
           /\ \E u \in ws["c1"].updates :
                 u.address = w.address /\ u.total_balance = w.sol_balance + w.wsol_balance
           /\ last.address \in DOMAIN ws["c1"].current_data

\* C2 (invariant I3): every history holds at most MAX_HISTORY_SIZE points,
\* in memory after any store operation and after seeding from the table; an
\* operation that appends keeps the newest points in order and drops from the
\* front, and seeding keeps the newest records of the table in order.
C2_HistoryBounded ==
    /\ \A a \in DOMAIN wallets : Len(wallets[a].history) <= MAX_HISTORY_SIZE
    /\ LastIsStoreOperation
          => LET before == last.pre[1].history
                 after  == wallets[last.address].history
             IN  \/ after = before
                 \/ /\ after # <<>>
                    /\ after = LastN(Append(before, after[Len(after)]), MAX_HISTORY_SIZE)
    /\ (last.op = "construct" /\ LastTracked)
          => LET records == load_wallet_history(db, last.address)
                 after   == wallets[last.address].history
             IN  /\ Len(after) = Min(Len(records), MAX_HISTORY_SIZE)
                 /\ \A i \in DOMAIN after :
                       LET r == records[Len(records) - Len(after) + i]
                       IN  /\ after[i].timestamp = r.timestamp
                           /\ after[i].sol_balance = r.sol_balance
                           /\ after[i].wsol_balance = r.wsol_balance
                           /\ after[i].total_balance = r.total_balance

\* Witness of C2: an account update has appended to a full history, so the
\* oldest point is gone.
C2_Witness ==
    /\ last.op = "account_update"
    /\ LastTracked
    /\ Len(last.pre[1].history) = MAX_HISTORY_SIZE
    /\ wallets[last.address].history # last.pre[1].history
    /\ wallets[last.address].history[1] = last.pre[1].history[2]

\* C3 (invariant I2): a store operation that appends a history point leaves
\* the wallet with wsol_initialized true; update_sol on a wallet whose
\* secondary amount has never been established sets sol_balance and
\* last_update and leaves history, wsol_balance and the flag as they were.
C3_HistorizedOnlyWhenInitialized ==
    /\ (LastIsStoreOperation /\ wallets[last.address].history # last.pre[1].history)
          => wallets[last.address].wsol_initialized
    /\ (last.op = "update_sol" /\ LastTracked /\ ~last.pre[1].wsol_initialized)
          => LET before == last.pre[1]
                 after  == wallets[last.address]
             IN  /\ after.history = before.history
                 /\ after.sol_balance = sol_to_lamports(last.arg)
                 /\ after.last_update = now
                 /\ after.wsol_balance = before.wsol_balance
                 /\ ~after.wsol_initialized

\* Witness of C3: update_sol has changed the primary amount of a wallet that
\* is not initialized and whose history was seeded from the table.
C3_Witness ==
    /\ last.op = "update_sol"
    /\ LastTracked
    /\ ~last.pre[1].wsol_initialized
    /\ last.pre[1].history # <<>>
    /\ wallets[last.address].sol_balance # last.pre[1].sol_balance
    /\ wallets[last.address].history = last.pre[1].history

\* The wallet add_wallet has just built from the fetched balances.
LastBuiltWallet == req[last.arg.i].wallet[1]

\* C4: adding an untracked wallet whose fetched balances are (p, s) leaves
\* it tracked with total = p + s and a history of exactly one point with the
\* amounts (p, s); and initialize_wsol, at start-up and in add_wallet, leaves
\* the history non-empty whatever it was before.
C4_AddEstablishesFetchedBalances ==
    /\ (last.op = "add_insert" /\ last.pre = None)
          => /\ last.address \in DOMAIN wallets
             /\ LET w == wallets[last.address]
                IN  /\ total_balance(w) = last.arg.lamports + last.arg.wsol
                    /\ Len(w.history) = 1
                    /\ w.history[1].sol_balance = last.arg.lamports
                    /\ w.history[1].wsol_balance = last.arg.wsol
    /\ last.op = "add_fetched" => LastBuiltWallet.history # <<>>
    /\ (last.op = "initialize_wsol" /\ LastTracked)
          => wallets[last.address].history # <<>>

\* C5 as stated: every initialize_wsol, at start-up and in add_wallet,
\* whether the history is empty or seeded, appends a history point with the
\* newly established amounts.
C5_InitializationAlwaysRecorded ==
    /\ (last.op = "initialize_wsol" /\ LastTracked)
          => LET before == last.pre[1].history
                 w      == wallets[last.address]
             IN  w.history = LastN(Append(before, point_of(w)), MAX_HISTORY_SIZE)
    /\ last.op = "add_fetched"
          => LastBuiltWallet.history
                = LastN(Append(last.pre[1].history, point_of(LastBuiltWallet)),
                        MAX_HISTORY_SIZE)

\* C5 as amended: initialize_wsol appends the point with the newly
\* established amounts exactly when the history was empty before the call
\* (always in add_wallet; at start-up when no record was seeded) and leaves a
\* seeded history as it was.
C5_InitializationRecordedWhenEmpty ==
    /\ (last.op = "initialize_wsol" /\ LastTracked)
          => LET before == last.pre[1].history
                 w      == wallets[last.address]
             IN  /\ w.wsol_initialized
                 /\ w.history = IF before = <<>> THEN << point_of(w) >> ELSE before
    /\ last.op = "add_fetched"
          => /\ last.pre[1].history = <<>>
             /\ LastBuiltWallet.wsol_initialized
             /\ LastBuiltWallet.history = << point_of(LastBuiltWallet) >>

\* Witness of C5: initialize_wsol at start-up has left a seeded history
\* untouched although it changed the secondary amount.
C5_Witness ==
    /\ last.op = "initialize_wsol"
    /\ LastTracked
    /\ last.pre[1].history # <<>>
    /\ wallets[last.address].wsol_balance # last.pre[1].wsol_balance
    /\ wallets[last.address].history = last.pre[1].history
    /\ wallets[last.address].history[Len(wallets[last.address].history)].wsol_balance
          # wallets[last.address].wsol_balance

\* The last step was a token-account update that decoded, for a tracked
\* owner.
LastIsWsolUpdate ==
    /\ last.op = "account_update"
    /\ LastTracked
    /\ last.arg.pubkey = calculate_wsol_ata(last.address)
    /\ last.arg.token # None

\* C6: update_wsol with amount a on a tracked wallet sets wsol_balance = a
\* and wsol_initialized, keeps sol_balance, makes the total sol + a and
\* appends exactly one history point, with secondary amount a and total
\* sol + a.
C6_UpdateWsol ==
    LastIsWsolUpdate
       => LET before == last.pre[1]
              w      == wallets[last.address]
              a      == last.arg.token[1]
          IN  /\ w.wsol_balance = a
              /\ w.wsol_initialized
              /\ w.sol_balance = before.sol_balance
              /\ total_balance(w) = before.sol_balance + a
              /\ w.history
                    = LastN(Append(before.history,
                                   [ timestamp     |-> now,
                                     sol_balance   |-> before.sol_balance,
                                     wsol_balance  |-> a,
                                     total_balance |-> before.sol_balance + a ]),
                            MAX_HISTORY_SIZE)

\* Witness of C6: an update has changed the secondary amount of a wallet
\* with a positive primary amount and a history.
C6_Witness ==
    /\ LastIsWsolUpdate
    /\ last.arg.token[1] # last.pre[1].wsol_balance
    /\ last.arg.token[1] > 0
    /\ last.pre[1].sol_balance > 0
    /\ last.pre[1].history # <<>>

\* C7: an add_wallet takes effect (inserts) only when its address is not
\* tracked at that moment; a tracked wallet is never replaced by an insert.
C7_AddNeverOverwrites ==
    last.op = "add_insert" => last.pre = None

\* C8: no two tracked wallets have the same name.
C8_LabelsUnique ==
    \A a, b \in DOMAIN wallets : a # b => wallets[a].name # wallets[b].name

C10_PersistOnlyBeyondEpsilon ==
    [][ (last'.op = "account_update" /\ db' # db)
           => /\ last'.pre # None
              /\ IF last'.arg.pubkey \in grpc.wallet_addresses
                 THEN Abs(last'.arg.lamports - last'.pre[1].sol_balance) > EPSILON_UNITS
                 ELSE /\ last'.arg.token # None
                      /\ Abs(last'.arg.token[1] - last'.pre[1].wsol_balance) > EPSILON_UNITS
      ]_vars

\* Witness of C10: an update has changed an amount by less than the
\* threshold, and the table holds no record with the new amount.
C10_Witness ==
    /\ last.op = "account_update"
    /\ LastTracked
    /\ last.arg.pubkey = last.address
    /\ last.arg.lamports # last.pre[1].sol_balance
    /\ Abs(last.arg.lamports - last.pre[1].sol_balance) <= EPSILON_UNITS
    /\ ~\E r \in db : r.address = last.address /\ r.sol_balance = last.arg.lamports

\* The last step handled a token-account update whose data did not unpack.
LastIsUndecodable ==
    /\ last.op = "account_update"
    /\ last.arg.pubkey \in DOMAIN grpc.ata_to_wallet_map
    /\ last.arg.token = None

\* C11: a token-account update whose data cannot be unpacked changes
\* neither the map nor the table and leaves the loop streaming; after it the
\* loop takes the next update as it takes any (while the run's message bound
\* lasts and no restart is signalled).
C11_UndecodableDropped ==
    [][ (last'.op = "account_update"
           /\ last'.arg.pubkey \in DOMAIN grpc.ata_to_wallet_map
           /\ last'.arg.token = None)
          => /\ wallets' = wallets
             /\ db' = db
             /\ grpc.pc = "streaming"
             /\ grpc'.pc = "streaming"
             /\ grpc'.wallet_addresses = grpc.wallet_addresses
             /\ grpc'.ata_to_wallet_map = grpc.ata_to_wallet_map
             /\ grpc_restart_signal' = grpc_restart_signal
      ]_vars

\* Witness of C11: an undecodable update for the token account of a tracked
\* wallet with a positive secondary amount has been dropped, and the loop
\* can take a further update.
C11_Witness ==
    /\ LastIsUndecodable
    /\ LastTracked
    /\ wallets[last.address].wsol_balance > 0
    /\ wallets[last.address] = last.pre[1]
    /\ grpc.pc = "streaming"
    /\ grpc.messages < MaxMessages
    /\ ENABLED (\E account \in AccountUpdates(EventLamports, EventWsol) :
                   GrpcAccountUpdate(account))

\* The steps by which the loop leaves a connection: a failure to build or
\* connect the client, to subscribe, to send the filter, a stream error, the
\* end of the stream, and the restart on the signal.
IngestionFailures ==
    {"connect_failed", "subscribe_failed", "send_failed", "stream_error", "stream_end",
     "restart"}

\* C12: the loop has no terminal state: after every failure and after every
\* restart it is eventually at the top of the loop again (connecting), and a
\* loop that is connecting eventually makes its attempt (it goes on to
\* subscribe or, failing, to the sleep).
C12_IngestionRecovers ==
    /\ (last.op \in IngestionFailures \/ grpc.pc = "backoff") ~> (grpc.pc = "connect")
    /\ (grpc.pc = "connect") ~> (grpc.pc \in {"subscribe", "backoff"})

\* Witness of C12: after a restart on the signal and the sleep, the loop is
\* connecting again.
C12_Witness ==
    /\ last.op = "backoff"
    /\ grpc.pc = "connect"
    /\ grpc.messages > 0
    /\ ~grpc_restart_signal
    /\ WalletA \in DOMAIN wallets
    /\ WalletA \notin grpc.wallet_addresses

(***************************************************************************)
(* The chart handler.                                                      *)
(***************************************************************************)
\* The last step answered a chart query for a tracked wallet.
LastIsChart == last.op = "get_chart_data" /\ last.arg.response # None

\* C13: every chart response is strictly increasing in time, so it has at
\* most one point per epoch second, and has at most CHART_CAP points, for
\* every history, `type` and `interval`.
C13_ChartAscendingAndCapped ==
    LastIsChart =>
        LET data == last.arg.response[1]
        IN  /\ Len(data) <= CHART_CAP
            /\ \A j \in 1..(Len(data) - 1) : data[j].time < data[j + 1].time

\* A history of 2000 points with two points in most seconds was sampled
\* down to CHART_CAP points.
C13_Witness ==
    /\ LastIsChart
    /\ Len(last.pre[1].history) > 2 * CHART_CAP - 1
    /\ \E j \in 1..(Len(last.pre[1].history) - 1) :
          timestamp_seconds(last.pre[1].history[j].timestamp)
              = timestamp_seconds(last.pre[1].history[j + 1].timestamp)
    /\ Len(last.arg.response[1]) = CHART_CAP

\* The deduplicated points of the window the last chart query asked for.
LastChartData ==
    chart_data_of(last.pre[1].history, last.arg.data_type, last.arg.interval, last.arg.now)

\* C14: when the windowed, deduplicated points are more than CHART_CAP, the
\* response begins at the first and ends at the last of their times; 2000
\* points spanning exactly 1000 seconds, asked for with "ALL", give exactly
\* CHART_CAP points.
C14_SampledKeepsEnds ==
    (LastIsChart /\ Len(LastChartData) > CHART_CAP) =>
        LET data == last.arg.response[1]
        IN  /\ data[1].time = LastChartData[1].time
            /\ data[Len(data)].time = LastChartData[Len(LastChartData)].time
            /\ (last.pre[1].history = ScenarioHistory /\ last.arg.interval = "ALL")
                   => Len(data) = CHART_CAP

\* The duration, in milliseconds, a bounded window token stands for.
window_duration(interval) ==
    CASE interval = "5M"  -> 5 * 60000
      [] interval = "10M" -> 10 * 60000
      [] interval = "30M" -> 30 * 60000
      [] interval = "1H"  -> 3600000
      [] interval = "2H"  -> 2 * 3600000
      [] interval = "4H"  -> 4 * 3600000
      [] interval = "8H"  -> 8 * 3600000
      [] interval = "12H" -> 12 * 3600000
      [] interval = "1D"  -> 86400000
      [] interval = "1W"  -> 604800000

BoundedIntervals == Intervals \ {"ALL", "1Y"}

\* C15: for a bounded window token of duration D every point of the response
\* is a history point of an age now - t of at most D.
C15_WindowExcludesOlder ==
    (LastIsChart /\ last.arg.interval \in BoundedIntervals) =>
        \A j \in 1..Len(last.arg.response[1]) :
            \E k \in 1..Len(last.pre[1].history) :
                LET h == last.pre[1].history[k]
                IN  /\ chart_point(last.arg.data_type, h) = last.arg.response[1][j]
                    /\ last.arg.now - h.timestamp <= window_duration(last.arg.interval)

(***************************************************************************)
(* The broadcaster.                                                        *)
(***************************************************************************)
\* The accounts of `current` that changed relative to `previous`: all of
\* them when there is no previous set, otherwise the new ones and those with
\* another amount or another last_update.
ChangedAccounts(current, previous) ==
    IF previous = None THEN DOMAIN current
    ELSE { a \in DOMAIN current :
             \/ a \notin DOMAIN previous[1]
             \/ current[a].sol # previous[1][a].sol
             \/ current[a].wsol # previous[1][a].wsol
             \/ current[a].total # previous[1][a].total
             \/ current[a].timestamp # previous[1][a].timestamp }

\* The accounts of `previous` that are not in `current`.
RemovedAccounts(current, previous) ==
    IF previous = None THEN {} ELSE DOMAIN previous[1] \ DOMAIN current

\* The accounts the entries of one type of a batch are about.
entries_of(type, entries) == { e.address : e \in { u \in entries : u.type = type } }

\* C16: the batch sent at the end of a tick has an update entry
\* for exactly the accounts that changed relative to the previous set, and a
\* tick with no changed and no removed account sends nothing.
C16_UpdatesExactlyChanged ==
    [][ \A c \in Clients :
          (ws[c].pc = "detail" /\ ws[c].todo = {} /\ ws'[c].pc = "wait") =>
              LET changed == ChangedAccounts(ws[c].current_data, ws[c].last_sent_data)
                  gone    == RemovedAccounts(ws[c].current_data, ws[c].last_sent_data)
              IN  /\ last'.op = "ws_send" =>
                         entries_of("update", last'.arg.batch) = changed
                  /\ (changed = {} /\ gone = {}) => last'.op = "ws_skip" ]_vars

\* The accounts of a previous set, none when there is no such set.
keys_of(previous) == IF previous = None THEN {} ELSE DOMAIN previous[1]

ClientFailures == {"ws_send_failed", "ws_closed"}

\* C18: a step in which a client's send fails or its connection is closed
\* ends the task of that client and of no other: the map, the table, the
\* restart signal, the ingestion loop and the other clients' connections,
\* their last_sent_data included, are as before; after it, every other
\* client that waits for its tick can take it, and one whose batch is ready
\* can send it.
C18_ClientFailureIsLocal ==
    /\ [][ last'.op \in ClientFailures =>
             /\ \E c \in Clients :
                   /\ ws[c].pc # "closed"
                   /\ ws'[c] = closed_connection
                   /\ \A d \in Clients \ {c} : ws'[d] = ws[d]
             /\ wallets' = wallets
             /\ db' = db
             /\ grpc_restart_signal' = grpc_restart_signal
             /\ grpc' = grpc
             /\ req' = req ]_vars
    /\ [](last.op \in ClientFailures =>
             \A d \in Clients :
                 /\ ws[d].pc = "wait" => ENABLED WsTick(d)
                 /\ (ws[d].pc = "detail" /\ ws[d].todo = {} /\ batch(ws[d]) # {})
                        => ENABLED WsSend(d))

\* The send to one client has failed while the other, which had been sent a
\* set before, is in the middle of a tick with an entry to send.
C18_Witness ==
    /\ last.op = "ws_send_failed"
    /\ \E c, d \in Clients :
          /\ ws[c].pc = "closed"
          /\ ws[d].pc = "detail"
          /\ ws[d].last_sent_data # None
          /\ ws[d].updates # {}
    /\ DOMAIN wallets = {WalletA}

(***************************************************************************)
(* Failure of the balance fetch.                                           *)
(***************************************************************************)
\* The wallet is in the map with a WSOL amount of 0 that counts as known.
TrackedAtZero(map, address) ==
    /\ address \in DOMAIN map
    /\ map[address].wsol_balance = 0
    /\ map[address].wsol_initialized

\* C19: after a failed balance fetch, at start-up and in add_wallet alike,
\* the wallet is tracked with a WSOL amount of 0 and wsol_initialized.
C19_FetchFailureStillTracks ==
    [][ /\ (startup.pc = "rpc" /\ startup'.pc = "rpc") =>
              \A a \in startup.pending \ startup'.pending : TrackedAtZero(wallets', a)
        /\ last'.op = "add_fetch_failed" => TrackedAtZero(wallets', last'.address) ]_vars

\* C19, amended: a failed fetch at start-up leaves the wallet tracked with a
\* WSOL amount of 0 and wsol_initialized; a failed fetch in add_wallet ends
\* the request with status 500 and leaves the map, the table and the restart
\* signal as they were, so the wallet of the request is not added.
C19_FetchFailureTracksAtStartupRejectsAdd ==
    [][ /\ (startup.pc = "rpc" /\ startup'.pc = "rpc") =>
              \A a \in startup.pending \ startup'.pending : TrackedAtZero(wallets', a)
        /\ last'.op = "add_fetch_failed" =>
              /\ last'.arg = "500"
              /\ wallets' = wallets
              /\ db' = db
              /\ grpc_restart_signal' = grpc_restart_signal
              /\ Len(req') = Len(req) - 1 ]_vars

\* The configured wallet is tracked at 0 after its fetch failed at start-up,
\* and an add request has just ended on a failed fetch without its wallet
\* being tracked.
C19_Witness ==
    /\ last.op = "add_fetch_failed"
    /\ last.address \notin DOMAIN wallets
    /\ req = << >>
    /\ TrackedAtZero(wallets, WalletA)
    /\ wallets[WalletA].sol_balance = 0
    /\ Len(wallets[WalletA].history) = 1

(***************************************************************************)
(* The history table.                                                      *)
(***************************************************************************)
\* The records of a sequence, as a set.
records_of(s) == { s[j] : j \in 1..Len(s) }

\* The operations that end with a call of save_wallet_history: the fetched
\* balances of add_wallet, the balances established at start-up, and an
\* account update (which saves when the change is above the threshold, and
\* changes the table only then).
SavesRecord ==
    \/ last'.op \in {"add_fetched", "initialize_wsol"}
    \/ last'.op = "account_update" /\ db' # db

\* C20: the table is append-only: every save adds exactly one record to what
\* load_wallet_history returns for the address and keeps every record that
\* was there, also when the address has a record of the same millisecond.
C20_TableAppendOnly ==
    [][ SavesRecord =>
          LET before == load_wallet_history(db, last'.address)
              after  == load_wallet_history(db', last'.address)
          IN  /\ Len(after) = Len(before) + 1
              /\ records_of(before) \subseteq records_of(after) ]_vars

(***************************************************************************)
(* Restarts of the ingestion loop.                                         *)
(***************************************************************************)
\* The filter of the loop is the one computed from the map as it is now.
FilterIsFresh(g, map) ==
    /\ g.wallet_addresses = DOMAIN map
    /\ DOMAIN g.ata_to_wallet_map = { calculate_wsol_ata(a) : a \in DOMAIN map }

HardFailures == {"connect_failed", "subscribe_failed", "send_failed", "stream_error"}

\* C22: after a stream error, a failed connect, a failed subscribe or a
\* failed send of the filter request the loop is in the 10 s sleep, and a
\* connection attempt begins only at the start of the task or when the sleep
\* has ended: no two attempts without the sleep between them.
C22_HardRestartBacksOff ==
    [][ /\ last'.op \in HardFailures => grpc'.pc = "backoff"
        /\ (grpc'.pc = "connect" /\ grpc.pc # "connect") =>
              grpc.pc \in {"idle", "backoff"} ]_vars

\* The filter set built from a tracked map: every tracked id, and the derived
\* address of every tracked id that has one.
FilterOf(map) ==
    [ wallet_accounts   |-> DOMAIN map,
      wsol_ata_accounts |-> { calculate_wsol_ata(a) : a \in { b \in DOMAIN map : is_pubkey(b) } } ]

\* C23: at every (re)subscription the filter request is sent exactly once
\* and its filter set is the ids tracked at the moment the set is built,
\* united with their derived addresses.  The set is built on the step that
\* connects, from the map as it is on that step; the loop enters streaming
\* only by the one step that sends the request, which carries the set that
\* was built; no other step of the loop sends a request.
C23_FilterSentOncePerSubscription ==
    [][ /\ last'.op = "connect" => accounts_filter(grpc') = FilterOf(wallets')
        /\ (grpc'.pc = "streaming" /\ grpc.pc # "streaming") =>
              /\ last'.op = "subscribe"
              /\ grpc.pc = "subscribe"
              /\ last'.arg = accounts_filter(grpc)
        /\ last'.op = "subscribe" => accounts_filter(grpc') = last'.arg
        /\ (last'.op # "subscribe" /\ grpc.pc # "connect") =>
              accounts_filter(grpc') = accounts_filter(grpc) ]_vars

\* A subscription sent after an add: both the new id and its derived address
\* are in the filter of the request.
C23_Witness ==
    /\ last.op = "subscribe"
    /\ grpc.pc = "streaming"
    /\ last.arg = [ wallet_accounts   |-> {WalletA},
                    wsol_ata_accounts |-> {calculate_wsol_ata(WalletA)} ]
    /\ grpc.messages > 0

\* C24: event routing is owner-correct.  The map built at subscription
\* associates a derived address only with the account it was derived from,
\* and an account update changes only the account whose id, or whose derived
\* address, the update names.
C24_RoutingOwnerCorrect ==
    [][ /\ \A ata \in DOMAIN grpc'.ata_to_wallet_map :
              /\ is_pubkey(grpc'.ata_to_wallet_map[ata])
              /\ ata = calculate_wsol_ata(grpc'.ata_to_wallet_map[ata])
        /\ last'.op = "account_update" =>
              \A a \in DOMAIN wallets :
                  wallets'[a] # wallets[a] =>
                      \/ last'.arg.pubkey = a
                      \/ is_pubkey(a) /\ last'.arg.pubkey = calculate_wsol_ata(a) ]_vars

\* C25: every update entry of an emitted batch carries the amounts and the
\* last_update the account had in the snapshot (current_data) taken for that
\* tick.
C25_BatchIsOneSnapshot ==
    [][ last'.op = "ws_send" =>
          LET current_data == ws[last'.arg.client].current_data
          IN  \A e \in last'.arg.batch :
                 e.type = "update" =>
                    /\ e.address \in DOMAIN current_data
                    /\ e.sol_balance   = current_data[e.address].sol
                    /\ e.wsol_balance  = current_data[e.address].wsol
                    /\ e.total_balance = current_data[e.address].total
                    /\ e.last_update   = current_data[e.address].timestamp ]_vars

\* The ticks that end on a step: the client leaves the loops over
\* current_data and waits for the next tick.
TickEnds(c) == ws[c].pc = "detail" /\ ws'[c].pc = "wait"

\* C26 as stated: at the end of every tick the client's previous set is the
\* current set of that tick, whether or not a message was sent.
C26_PreviousAlwaysReplaced ==
    [][ \A c \in Clients :
           TickEnds(c) => ws'[c].last_sent_data = Some(ws[c].current_data) ]_vars

\* C26, amended: the previous set is replaced by the current set at the end
\* of a tick in which the message was sent, and is left as it was at the end
\* of a tick in which nothing was sent; between the ends of ticks it does not
\* change while the connection lives.
C26_PreviousReplacedWhenSent ==
    [][ \A c \in Clients :
           /\ TickEnds(c) =>
                 IF last'.op = "ws_send"
                 THEN /\ batch(ws[c]) # {}
                      /\ ws'[c].last_sent_data = Some(ws[c].current_data)
                 ELSE /\ batch(ws[c]) = {}
                      /\ ws'[c].last_sent_data = ws[c].last_sent_data
           /\ (~TickEnds(c) /\ ws'[c].pc # "closed") =>
                 ws'[c].last_sent_data = ws[c].last_sent_data ]_vars

\* A tick that sent nothing, after an earlier tick of the client that sent a
\* batch: the previous set is still the one of the earlier tick.
C26_Witness ==
    /\ last.op = "ws_skip"
    /\ ws["c1"].pc = "wait"
    /\ ws["c1"].last_sent_data # None
    /\ WalletA \in keys_of(ws["c1"].last_sent_data)

\* The steps that run as one critical section of the store lock
\* (`wallets.lock().unwrap()` up to the drop of the guard): the key read of
\* the ingestion loop, the handling of one account update, the two locked
\* blocks of add_wallet, the locked block of delete_wallet, the two locked
\* blocks of a broadcaster tick and the chart query.  The start-up steps work
\* on the map before it is shared and take no lock.
holds_wallets_lock(op) ==
    op \in { "connect", "account_update", "add_check", "add_insert", "delete_remove",
             "ws_tick", "ws_detail", "get_chart_data" }

\* C27: no blocking I/O is performed while the store lock is held.  Of the
\* I/O steps the balance-fetch RPC, the stream receive and the client send
\* are steps of their own that hold no lock; what remains is that a step
\* that holds the lock does not write the history table.
C27_NoWriteUnderStoreLock ==
    [][ holds_wallets_lock(last'.op) => db' = db ]_vars

\* The history point a persisted record stands for.
record_point(r) ==
    [ timestamp |-> r.timestamp, sol_balance |-> r.sol_balance,
      wsol_balance |-> r.wsol_balance, total_balance |-> r.total_balance ]

\* C28: seeding an account from the history table at start-up replaces only
\* its history.  The account differs from the freshly constructed one in the
\* history alone; the history holds points of the account's persisted
\* records in ascending order of timestamp, as many as there are records up
\* to the cap, and every record left out is older than every point kept.
C28_SeedingReplacesOnlyHistory ==
    (last.op = "construct" /\ last.address \in DOMAIN wallets) =>
        LET fresh     == last.pre[1]
            seeded    == wallets[last.address]
            persisted == { r \in db : r.address = last.address }
            kept      == records_of(seeded.history)
        IN  /\ [seeded EXCEPT !.history = fresh.history] = fresh
            /\ \A i, j \in DOMAIN seeded.history :
                  i < j => seeded.history[i].timestamp < seeded.history[j].timestamp
            /\ kept \subseteq { record_point(r) : r \in persisted }
            /\ Len(seeded.history) = Min(Cardinality(persisted), MAX_HISTORY_SIZE)
            /\ \A r \in persisted :
                  record_point(r) \notin kept =>
                      \A h \in kept : r.timestamp < h.timestamp

\* An account seeded from a table that holds more of its records than the
\* cap, with balances on record that the fresh account does not have.
C28_Witness ==
    /\ last.op = "construct"
    /\ last.address \in DOMAIN wallets
    /\ Cardinality({ r \in db : r.address = last.address }) > MAX_HISTORY_SIZE
    /\ Len(wallets[last.address].history) = MAX_HISTORY_SIZE
    /\ wallets[last.address].history[MAX_HISTORY_SIZE].sol_balance
          # wallets[last.address].sol_balance

\* C29: every account in the shared map has its WSOL balance initialized.
\* The map is shared from the moment main wraps it for the server and the
\* ingestion task, after initialize_wallets_from_rpc has returned.
C29_SharedAccountsInitialized ==
    startup.pc = "running" =>
        \A a \in DOMAIN wallets : wallets[a].wsol_initialized

\* The shared map holds a configured account whose start-up fetch failed and
\* an account added through the API.
C29_Witness ==
    /\ startup.pc = "running"
    /\ DOMAIN wallets = {WalletA, WalletB}
    /\ wallets[WalletA].wsol_initialized /\ wallets[WalletA].sol_balance = 0
    /\ wallets[WalletB].wsol_initialized
    /\ last.op = "add_insert"

\* An add or remove request has mutated the store and has not yet set the
\* restart signal.
MutationUnsignalled ==
    \E i \in DOMAIN req :
        \/ req[i].op = "add" /\ req[i].pc = "signal"
        \/ req[i].op = "delete" /\ req[i].pc \in {"purge", "signal"}

\* C30: no add/remove notification is lost.  Whenever the ingestion loop is
\* streaming, the restart signal is false and no request is between its
\* store mutation and its signal-set step, the filter of the active
\* subscription is the set of the tracked ids with their derived addresses.
C30_NoNotificationLost ==
    (grpc.pc = "streaming" /\ ~grpc_restart_signal /\ ~MutationUnsignalled)
        => accounts_filter(grpc) = FilterOf(wallets)

\* The loop streams again after an add was signalled and picked up: the
\* signal is false, no request is pending and the added wallet is in the
\* filter.
C30_Witness ==
    /\ grpc.pc = "streaming"
    /\ ~grpc_restart_signal
    /\ req = << >>
    /\ grpc.messages > 0
    /\ WalletA \in DOMAIN wallets
    /\ WalletA \in grpc.wallet_addresses

\* C31: after the restart signal is set, the ingestion loop eventually
\* clears it and streams on a subscription whose filter contains every
\* tracked account, whether or not a further message arrives.
C31_SignalEventuallyServed ==
    grpc_restart_signal ~>
        ( /\ ~grpc_restart_signal
          /\ grpc.pc = "streaming"
          /\ DOMAIN wallets \subseteq grpc.wallet_addresses )

\* A well-formed update event for a tracked account of the current filter:
\* an update of a subscribed wallet that is tracked, or of a subscribed
\* derived address, with a payload that decodes, whose owner is tracked.
WellFormedTracked(m) ==
    \/ m.pubkey \in grpc.wallet_addresses /\ m.pubkey \in DOMAIN wallets
    \/ /\ m.pubkey \in DOMAIN grpc.ata_to_wallet_map
       /\ m.token # None
       /\ grpc.ata_to_wallet_map[m.pubkey] \in DOMAIN wallets

\* C32: every such event received while streaming is applied to the store
\* on the step that receives it: the owner's SOL balance is the event's
\* lamports, or its WSOL balance the event's token amount.
C32_ReceivedEventsApplied ==
    [][ ( /\ grpc.pc = "streaming"
          /\ grpc'.messages = grpc.messages + 1
          /\ last'.op \in {"restart", "account_update"}
          /\ WellFormedTracked(last'.arg) )
        => LET m == last'.arg
           IN  IF m.pubkey \in grpc.wallet_addresses
               THEN /\ m.pubkey \in DOMAIN wallets'
                    /\ wallets'[m.pubkey].sol_balance = m.lamports
               ELSE /\ grpc.ata_to_wallet_map[m.pubkey] \in DOMAIN wallets'
                    /\ wallets'[grpc.ata_to_wallet_map[m.pubkey]].wsol_balance = m.token[1]
      ]_vars

\* The update entries of the batch sent on the last step.
SentEntries ==
    IF last.op = "ws_send" THEN { e \in last.arg.batch : e.type = "update" } ELSE {}

\* An entry carries the amounts and the last_update of a wallet.
carries(e, w) ==
    /\ e.sol_balance = w.sol_balance
    /\ e.wsol_balance = w.wsol_balance
    /\ e.total_balance = total_balance(w)
    /\ e.last_update = w.last_update

\* The last step sent an entry for the account that carries what the store
\* holds for it, or one that does not.
SentFresh(a) ==
    a \in DOMAIN wallets /\ \E e \in SentEntries : e.address = a /\ carries(e, wallets[a])

SentStale(a) ==
    a \in DOMAIN wallets /\ \E e \in SentEntries : e.address = a /\ ~carries(e, wallets[a])

\* The last step changed what a snapshot shows of the account.
Changed(a) ==
    /\ a \in DOMAIN wallets
    /\ last.address = a
    /\ last.op \in {"account_update", "add_insert"}
    /\ (last.pre = None \/ snapshot_entry(last.pre[1]) # snapshot_entry(wallets[a]))

\* C33: broadcaster convergence for a client that stays connected.  Whenever
\* the client has just connected, or the store has changed for a tracked
\* account, or an entry was sent that does not carry what the store holds,
\* an entry for the account that carries what the store holds is sent
\* later; and from some point on no message is sent.  With a store that
\* stops changing, the last entry sent for an account then carries its final
\* amounts and last_update.
C33_BroadcasterConverges ==
    /\ \A a \in Addresses :
          ( /\ ws["c1"].pc # "closed"
            /\ a \in DOMAIN wallets
            /\ (last.op = "ws_upgrade" \/ Changed(a) \/ SentStale(a)) )
          ~> (SentFresh(a) \/ a \notin DOMAIN wallets)
    /\ <>[](last.op # "ws_send")

\* The stream has delivered all its messages, so the store has stopped
\* changing, and the entry just sent carries the account's final amounts,
\* which the ingestion loop has applied.
C33_Witness ==
    /\ last.op = "ws_send"
    /\ SentFresh(WalletA)
    /\ grpc.messages = MaxMessages
    /\ wallets[WalletA].sol_balance = 1200
    /\ wallets[WalletA].wsol_balance = 2500
    /\ ws["c1"].last_sent_data # None

\* The amounts of a sequence of history points, in order.
amounts_of(history) ==
    [ i \in 1..Len(history) |->
        << history[i].sol_balance, history[i].wsol_balance, history[i].total_balance >> ]

\* The history a restart would seed the account with from the table as it is.
reloaded_history(a) ==
    load_history_from_db(wallets[a], load_wallet_history(db, a)).history

=============================================================================
